---- MODULE Spec2Model ----
(***************************************************************************)
(* Model of the myjql B+ tree engine (src/myjql.c): the pager, the node    *)
(* codec, the cursor, insert with leaf/internal splits, delete with        *)
(* redistribute/merge, the two select forms, close/reopen and the shell   *)
(* that reads the command lines.                                           *)
(*                                                                         *)
(* A page is modelled word by word where the layout matters: a cell is 16  *)
(* bytes = four 32-bit words <<w0,w1,w2,w3>>.  A leaf cell is the 12-byte   *)
(* key (w0,w1,w2) followed by the value a (w3); an internal cell is the    *)
(* child page number (w0) followed by the 12-byte key (w1,w2,w3).  Keys of *)
(* the model are one-character strings, so a 12-byte key buffer is         *)
(* <<c,0,0>> with c the character code, and as a C string it is decided   *)
(* by its first word (0 is the empty string).  Cells beyond num_cells /    *)
(* num_keys keep whatever was last written there, as in the C pages.       *)
(*                                                                         *)
(* PAGE_SIZE and TABLE_MAX_PAGES are scaled down (4096 and 65536 in the    *)
(* source); every capacity is derived from PAGE_SIZE by the source's own   *)
(* formulas.                                                               *)
(***************************************************************************)
EXTENDS Integers, Sequences, FiniteSets, TLC

VARIABLES
  pages,      \* pager->pages: page number -> page image, resident slots only
  num_pages,  \* pager->num_pages
  file,       \* the database file: sequence of page images (index n+1 = page n)
  pc,         \* "prompt" | "done" | "exited" | "hung" | "crashed"
  out,        \* rows printed by the command that has just run (<<a, b>> pairs)
  cmd,        \* the command that has just run: op (for a line the shell
              \* did not execute, the result it came to), key (0: none) and
              \* the value its Cursor's unset end_of_table held
  live,       \* ghost: rows inserted and not deleted since, in insertion order
  nins,       \* number of insert commands so far
  ndel,       \* number of delete commands so far
  nopen,      \* number of times the file was reopened
  statement,  \* the global statement: type, row (a, b) and flag
  lru         \* the pager of the experimental buffer pool, src/lru.c

vars == <<pages, num_pages, file, pc, out, cmd, live, nins, ndel, nopen,
          statement, lru>>

(***************************************************************************)
(* Bounds of the model.                                                    *)
(***************************************************************************)
PAGE_SIZE == 62          \* scaled: 4096 in src/myjql.c:34
TABLE_MAX_PAGES == 16    \* scaled: 65536 in src/myjql.c:20
MaxInserts == 5          \* insert commands of a run without restart
MaxDeletes == 2          \* delete commands of a run without restart
MaxReopens == 1          \* restarts on the same file
MaxInsertsReopen == 4    \* insert commands when the program is restarted
MaxDeletesReopen == 1    \* delete commands when the program is restarted

(***************************************************************************)
(* Layout constants, src/myjql.c:429-471.                                  *)
(***************************************************************************)
NODE_INTERNAL == 0
NODE_LEAF == 1
COMMON_NODE_HEADER_SIZE == 6
LEAF_NODE_HEADER_SIZE == 14
LEAF_NODE_CELL_SIZE == 16
LEAF_NODE_SPACE_FOR_CELLS == PAGE_SIZE - LEAF_NODE_HEADER_SIZE
LEAF_NODE_MAX_CELLS == (LEAF_NODE_SPACE_FOR_CELLS \div LEAF_NODE_CELL_SIZE) - 1
\* The left count rounded up where the code rounds down.
LEAF_NODE_LEFT_SPLIT_COUNT_rounded_up == (LEAF_NODE_MAX_CELLS + 2) \div 2
LEAF_NODE_LEFT_SPLIT_COUNT == (LEAF_NODE_MAX_CELLS + 1) \div 2
LEAF_NODE_RIGHT_SPLIT_COUNT == (LEAF_NODE_MAX_CELLS + 1) - LEAF_NODE_LEFT_SPLIT_COUNT
LEAF_NODE_MIN_CELLS == LEAF_NODE_MAX_CELLS \div 2
INTERNAL_NODE_HEADER_SIZE == 14
INTERNAL_NODE_CELL_SIZE == 16
INTERNAL_NODE_SPACE_FOR_CELLS == PAGE_SIZE - INTERNAL_NODE_HEADER_SIZE
INTERNAL_NODE_MAX_CELLS == (INTERNAL_NODE_SPACE_FOR_CELLS \div INTERNAL_NODE_CELL_SIZE) - 1
INTERNAL_NODE_MIN_CELLS == 1

\* A page with no cell behind the cells a node may count.
CELL_SLOTS_no_spare == LEAF_NODE_MAX_CELLS

\* Number of whole 16-byte cells that lie inside a page.
CELL_SLOTS == LEAF_NODE_SPACE_FOR_CELLS \div LEAF_NODE_CELL_SIZE

(***************************************************************************)
(* Keys.  A key is the 12-byte buffer <<c,0,0>> of a one-character string. *)
(* KeyCodes holds "-" (45, below "0"), "a" (97) and "b" (98).               *)
(***************************************************************************)
MIN_KEY_CODE == 48       \* the character "0" of table_start's min_key
KeyCodes == {45, 97, 98}
MkKey(c) == <<c, 0, 0>>
Keys == {MkKey(c) : c \in KeyCodes}

Sign(n) == IF n < 0 THEN -1 ELSE IF n > 0 THEN 1 ELSE 0

\* Byte i (1..12) of a key buffer of three little-endian 4-byte words, and
\* the buffer of twelve bytes.
LEAF_NODE_KEY_SIZE == 12
ByteAt(k, i) == (k[((i - 1) \div 4) + 1] \div (256 ^ ((i - 1) % 4))) % 256
Pack(bytes) ==
  [w \in 1..3 |-> bytes[4 * w - 3] + 256 * bytes[4 * w - 2]
                  + 65536 * bytes[4 * w - 1] + 16777216 * bytes[4 * w]]

\* The length of the string in the buffer: the bytes before the first NUL.
RECURSIVE StrLenFrom(_, _)
StrLenFrom(k, i) ==
  IF i > LEAF_NODE_KEY_SIZE \/ ByteAt(k, i) = 0 THEN i - 1 ELSE StrLenFrom(k, i + 1)

\* strcmp on two key buffers, byte by byte up to the first difference or
\* the NUL of both.  When both first words are below 256 each string is
\* the one byte of the first word ("" when it is 0).
RECURSIVE StrCmpFrom(_, _, _)
StrCmpFrom(k1, k2, i) ==
  IF i > LEAF_NODE_KEY_SIZE THEN 0
  ELSE IF ByteAt(k1, i) # ByteAt(k2, i) THEN Sign(ByteAt(k1, i) - ByteAt(k2, i))
  ELSE IF ByteAt(k1, i) = 0 THEN 0
  ELSE StrCmpFrom(k1, k2, i + 1)

strcmp(k1, k2) ==
  IF k1[1] < 256 /\ k2[1] < 256 THEN Sign(k1[1] - k2[1])
  ELSE StrCmpFrom(k1, k2, 1)

\* strncpy(dst, src, 12): the string of src, then NUL padding.
strncpy(src) ==
  IF src[1] < 256 THEN <<src[1], 0, 0>>
  ELSE Pack([i \in 1..LEAF_NODE_KEY_SIZE |->
               IF i <= StrLenFrom(src, 1) THEN ByteAt(src, i) ELSE 0])

\* The string of a buffer as print_row shows it, as one number: its bytes
\* in base 256 (the byte itself for a string of one character).  The keys
\* of the model have at most three characters, so the string lies in the
\* first word.
StringOf(k) ==
  IF k[1] < 256 THEN k[1]
  ELSE IF StrLenFrom(k, 1) >= 4 THEN k[1]
  ELSE k[1] % (256 ^ StrLenFrom(k, 1))

(***************************************************************************)
(* Pages.                                                                  *)
(***************************************************************************)
ZeroCell == <<0, 0, 0, 0>>

\* A page as malloc hands it out and read() leaves it at end of file: the
\* heap of the process only ever grows (pages are freed at close only), so
\* the block comes zero-filled from the kernel.
ZeroPage ==
  [type |-> 0, root |-> 0, parent |-> 0, num |-> 0, next |-> 0,
   cells |-> [i \in 1..CELL_SLOTS |-> ZeroCell]]

\* The table as the operations see and change it.  st is "ok" until the
\* command exits the process ("fatal": exit(EXIT_FAILURE)), runs forever
\* ("hang"), touches memory outside a page or the pages array ("crash"), or
\* recurses without end until the stack is used up ("overflow").
Mem(pgs, np, fl) == [pages |-> pgs, num_pages |-> np, file |-> fl, st |-> "ok"]

Fail(m, how) == IF m.st # "ok" THEN m ELSE [m EXCEPT !.st = how]

\* Page n through the pointer get_page returned earlier.
PageOf(m, n) == IF n \in DOMAIN m.pages THEN m.pages[n] ELSE ZeroPage

(************************** pager, src/myjql.c:62-202 **********************)
\* lseek + read of PAGE_SIZE bytes into a fresh block: the page of the file,
\* or nothing (0 bytes read) at or past the end of the file.
read_page(fl, page_num) ==
  IF page_num < Len(fl) THEN fl[page_num + 1] ELSE ZeroPage

get_page(m, page_num) ==
  IF m.st # "ok" THEN m
  ELSE IF page_num > TABLE_MAX_PAGES THEN Fail(m, "fatal")
  ELSE IF page_num = TABLE_MAX_PAGES THEN Fail(m, "crash")  \* pages[TABLE_MAX_PAGES]
  ELSE IF page_num \in DOMAIN m.pages THEN m
  ELSE
    LET file_pages == Len(m.file)     \* file_length / PAGE_SIZE, no remainder
        page == IF page_num <= file_pages
                  THEN read_page(m.file, page_num)
                  ELSE ZeroPage
    IN [m EXCEPT !.pages = (page_num :> page) @@ @,
                 !.num_pages = IF page_num >= @ THEN page_num + 1 ELSE @]

\* A pager that hands out the last page number again.
get_unused_page_num_last_again(m) == m.num_pages - 1

get_unused_page_num(m) == m.num_pages

\* Writes through a page pointer.  Nothing is written once the process is
\* on its way out.
SetField(m, n, f, v) ==
  IF m.st # "ok" \/ n \notin DOMAIN m.pages THEN m
  ELSE [m EXCEPT !.pages[n][f] = v]

SetPage(m, n, p) ==
  IF m.st # "ok" \/ n \notin DOMAIN m.pages THEN m
  ELSE [m EXCEPT !.pages[n] = p]

\* memcpy of a whole 16-byte cell to slot i of page n.
SetCell(m, n, i, c) ==
  IF m.st # "ok" \/ n \notin DOMAIN m.pages THEN m
  ELSE IF i < 0 \/ i >= CELL_SLOTS THEN Fail(m, "crash")
  ELSE [m EXCEPT !.pages[n].cells[i + 1] = c]

CellAt(p, i) == IF i >= 0 /\ i < CELL_SLOTS THEN p.cells[i + 1] ELSE ZeroCell

(************************ node codec, src/myjql.c:476-685 ******************)
leaf_node_cell(p, i) == CellAt(p, i)
leaf_node_key(p, i) == LET c == CellAt(p, i) IN <<c[1], c[2], c[3]>>
leaf_node_value(p, i) == CellAt(p, i)[4]
internal_node_cell(p, i) == CellAt(p, i)
internal_node_key(p, i) == LET c == CellAt(p, i) IN <<c[2], c[3], c[4]>>

\* internal_node_child: exit when child_num > num_keys, the right child
\* when child_num = num_keys, else the child word of the cell.
ChildOutOfRange(p, child_num) == child_num > p.num

internal_node_child(p, child_num) ==
  IF child_num = p.num THEN p.next ELSE CellAt(p, child_num)[1]

\* The exit of internal_node_child when child_num > num_keys.
CheckChild(m, n, child_num) ==
  IF ChildOutOfRange(PageOf(m, n), child_num) THEN Fail(m, "fatal") ELSE m

\* *internal_node_child(node, child_num) = v
SetChild(m, n, child_num, v) ==
  LET p == PageOf(m, n) IN
  IF ChildOutOfRange(p, child_num) THEN Fail(m, "fatal")
  ELSE IF child_num = p.num THEN SetField(m, n, "next", v)
  ELSE SetCell(m, n, child_num, [CellAt(p, child_num) EXCEPT ![1] = v])

\* memcpy(internal_node_key(node, i), key, 12)
SetInternalKey(m, n, i, k) ==
  SetCell(m, n, i, <<CellAt(PageOf(m, n), i)[1], k[1], k[2], k[3]>>)

\* memcpy(leaf_node_key(node, i), key, 12)
SetLeafKey(m, n, i, k) ==
  SetCell(m, n, i, <<k[1], k[2], k[3], CellAt(PageOf(m, n), i)[4]>>)

get_node_max_key(p) ==
  IF p.type = NODE_INTERNAL THEN internal_node_key(p, p.num - 1)
  ELSE leaf_node_key(p, p.num - 1)

\* serialize_row / deserialize_row: b in bytes 0..11, a in bytes 12..15.
serialize_row(row) == <<row.b[1], row.b[2], row.b[3], row.a>>
deserialize_row(c) == [a |-> c[4], b |-> <<c[1], c[2], c[3]>>]

initialize_leaf_node(m, n) ==
  SetField(SetField(SetField(SetField(m, n, "type", NODE_LEAF),
                             n, "root", 0), n, "num", 0), n, "next", 0)

initialize_internal_node(m, n) ==
  SetField(SetField(SetField(m, n, "type", NODE_INTERNAL), n, "root", 0),
           n, "num", 0)

(********************* cursor and search, src/myjql.c:225-340 **************)
RECURSIVE LeafWalkLeft(_, _, _)
LeafWalkLeft(node, key, test_index) ==
  IF test_index >= 0 /\ strcmp(key, leaf_node_key(node, test_index)) = 0
    THEN LeafWalkLeft(node, key, test_index - 1)
    ELSE test_index

RECURSIVE LeafBinarySearch(_, _, _, _)
LeafBinarySearch(node, key, min_index, one_past_max_index) ==
  IF one_past_max_index = min_index THEN min_index
  ELSE
    LET index == (min_index + one_past_max_index) \div 2
        cmp == strcmp(key, leaf_node_key(node, index))
    IN IF cmp = 0 THEN LeafWalkLeft(node, key, index) + 1
       ELSE IF cmp < 0 THEN LeafBinarySearch(node, key, min_index, index)
       ELSE LeafBinarySearch(node, key, index + 1, one_past_max_index)

\* A cursor is [m, page_num, cell_num]; end_of_table is left unset by
\* leaf_node_find (the Cursor comes from malloc), see the select and
\* delete actions.
leaf_node_find(m, page_num, key) ==
  LET m1 == get_page(m, page_num)
      node == PageOf(m1, page_num)
  IN [m |-> m1, page_num |-> page_num,
      cell_num |-> LeafBinarySearch(node, key, 0, node.num)]

RECURSIVE InternalWalkLeft(_, _, _)
InternalWalkLeft(node, key, test_index) ==
  IF test_index >= 0 /\ strcmp(key, internal_node_key(node, test_index)) = 0
    THEN InternalWalkLeft(node, key, test_index - 1)
    ELSE test_index

RECURSIVE InternalBinarySearch(_, _, _, _)
InternalBinarySearch(node, key, min_index, max_index) ==
  IF min_index = max_index THEN min_index
  ELSE
    LET index == (min_index + max_index) \div 2
        cmp == strcmp(key, internal_node_key(node, index))
    IN IF cmp = 0 THEN InternalWalkLeft(node, key, index) + 1
       ELSE IF cmp < 0 THEN InternalBinarySearch(node, key, min_index, index)
       ELSE InternalBinarySearch(node, key, index + 1, max_index)

\* internal_node_find_child exits when the node has no key; FindChildCheck
\* is that exit, internal_node_find_child the index it returns otherwise.
FindChildCheck(m, n) ==
  IF PageOf(m, n).num = 0 THEN Fail(m, "fatal") ELSE m

internal_node_find_child(node, key) ==
  InternalBinarySearch(node, key, 0, node.num)

\* The recursion of internal_node_find ends at a leaf; a descent longer
\* than the number of page slots is on a cycle and never returns (it ends
\* the process by exhausting the stack).
RECURSIVE internal_node_find_rec(_, _, _, _)
internal_node_find_rec(m, page_num, key, fuel) ==
  LET m1 == FindChildCheck(get_page(m, page_num), page_num)
      node == PageOf(m1, page_num)
      child_index == internal_node_find_child(node, key)
      child_page_id == internal_node_child(node, child_index)
      m2 == get_page(m1, child_page_id)
      child_page == PageOf(m2, child_page_id)
  IN IF m2.st # "ok" THEN [m |-> m2, page_num |-> 0, cell_num |-> 0]
     ELSE IF child_page.type = NODE_LEAF THEN leaf_node_find(m2, child_page_id, key)
     ELSE IF fuel = 0 THEN [m |-> Fail(m2, "overflow"), page_num |-> 0, cell_num |-> 0]
     ELSE internal_node_find_rec(m2, child_page_id, key, fuel - 1)

internal_node_find(m, page_num, key) ==
  internal_node_find_rec(m, page_num, key, TABLE_MAX_PAGES)

table_find(m, key) ==
  LET root_page_num == 0
      m1 == get_page(m, root_page_num)
  IN IF PageOf(m1, root_page_num).type = NODE_LEAF
       THEN leaf_node_find(m1, root_page_num, key)
       ELSE internal_node_find(m1, root_page_num, key)

\* table_start: the cursor of table_find("0") with end_of_table set.
table_start(m) ==
  LET cursor == table_find(m, MkKey(MIN_KEY_CODE))
      m1 == get_page(cursor.m, cursor.page_num)
  IN [m |-> m1, page_num |-> cursor.page_num, cell_num |-> cursor.cell_num,
      end_of_table |-> (PageOf(m1, cursor.page_num).num = 0)]

cursor_value(cursor) ==
  leaf_node_cell(PageOf(get_page(cursor.m, cursor.page_num), cursor.page_num),
                 cursor.cell_num)

cursor_advance(cursor) ==
  LET m1 == get_page(cursor.m, cursor.page_num)
      node == PageOf(m1, cursor.page_num)
      cell_num == cursor.cell_num + 1
  IN IF cell_num >= node.num
       THEN IF node.next = 0
              THEN [cursor EXCEPT !.m = m1, !.cell_num = cell_num,
                                  !.end_of_table = TRUE]
              ELSE [cursor EXCEPT !.m = m1, !.page_num = node.next,
                                  !.cell_num = 0]
       ELSE [cursor EXCEPT !.m = m1, !.cell_num = cell_num]

\* What print_row shows of a row: a and the string of b.
Printed(row) == <<row.a, StringOf(row.b)>>

\* More rows than the pages can hold cells: the cursor is on a cycle of
\* the leaf chain and the loop never ends.
MaxRows == TABLE_MAX_PAGES * CELL_SLOTS

(************************** select, src/myjql.c:706-728, 1737-1753 *********)
RECURSIVE SearchLoop(_, _, _)
SearchLoop(cursor, key, printed) ==
  IF cursor.m.st # "ok" \/ cursor.end_of_table
    THEN [m |-> cursor.m, out |-> printed]
  ELSE IF Len(printed) > MaxRows
    THEN [m |-> Fail(cursor.m, "hang"), out |-> printed]
  ELSE
    LET row == deserialize_row(cursor_value(cursor))
    IN IF strcmp(row.b, key) # 0 THEN [m |-> cursor.m, out |-> printed]
       ELSE SearchLoop(cursor_advance([cursor EXCEPT !.m = get_page(cursor.m, cursor.page_num)]),
                       key, Append(printed, Printed(row)))

\* end_of_table is the value the unset flag of the malloc'ed Cursor
\* happens to hold.
b_tree_search(m, key, end_of_table) ==
  LET c == table_find(m, key)
  IN SearchLoop([m |-> c.m, page_num |-> c.page_num, cell_num |-> c.cell_num,
                 end_of_table |-> end_of_table], key, <<>>)

RECURSIVE TraverseLoop(_, _)
TraverseLoop(cursor, printed) ==
  IF cursor.m.st # "ok" \/ cursor.end_of_table
    THEN [m |-> cursor.m, out |-> printed]
  ELSE IF Len(printed) > MaxRows
    THEN [m |-> Fail(cursor.m, "hang"), out |-> printed]
  ELSE
    LET row == deserialize_row(cursor_value(cursor))
    IN TraverseLoop(cursor_advance([cursor EXCEPT !.m = get_page(cursor.m, cursor.page_num)]),
                    Append(printed, Printed(row)))

b_tree_traverse(m) == TraverseLoop(table_start(m), <<>>)

(***************************************************************************)
(* Loops over cells and children.                                          *)
(***************************************************************************)
\* for (i = from; i < to (step 1) or i > to (step -1); i += step)
\*   memcpy(cell(dst, i + d_off), cell(src, i + s_off), 16);
RECURSIVE CopyLoop(_, _, _, _, _, _, _, _)
CopyLoop(m, dst, src, i, to, step, d_off, s_off) ==
  IF m.st # "ok" \/ (step > 0 /\ i >= to) \/ (step < 0 /\ i <= to) THEN m
  ELSE CopyLoop(SetCell(m, dst, i + d_off, CellAt(PageOf(m, src), i + s_off)),
                dst, src, i + step, to, step, d_off, s_off)

\* for (i = from; i < count; ++i)
\*   *node_parent(get_page(*internal_node_child(node, i))) = parent_id;
RECURSIVE SetChildParents(_, _, _, _, _)
SetChildParents(m, node, i, count, parent_id) ==
  IF m.st # "ok" \/ i >= count THEN m
  ELSE
    LET p == PageOf(m, node)
        child == internal_node_child(p, i)
        m1 == IF ChildOutOfRange(p, i) THEN Fail(m, "fatal") ELSE get_page(m, child)
    IN SetChildParents(SetField(m1, child, "parent", parent_id),
                       node, i + 1, count, parent_id)

\* *node_parent(get_page(page_num)) = parent_id
SetParentOf(m, page_num, parent_id) ==
  SetField(get_page(m, page_num), page_num, "parent", parent_id)

\* A key argument (char*): a buffer of its own, or a pointer into a page
\* that is read when the callee uses it.
KeyBuf(k) == [kind |-> "buf", k |-> k, p |-> 0, i |-> 0]
KeyInLeaf(p, i) == [kind |-> "leaf", k |-> <<0, 0, 0>>, p |-> p, i |-> i]
KeyInInternal(p, i) == [kind |-> "internal", k |-> <<0, 0, 0>>, p |-> p, i |-> i]
KeyOf(m, r) ==
  IF r.kind = "buf" THEN r.k
  ELSE IF r.kind = "leaf" THEN leaf_node_key(PageOf(m, r.p), r.i)
  ELSE internal_node_key(PageOf(m, r.p), r.i)

\* get_node_max_key as the pointer it returns.
MaxKeyRef(m, n) ==
  LET p == PageOf(m, n) IN
  IF p.type = NODE_INTERNAL THEN KeyInInternal(n, p.num - 1)
  ELSE KeyInLeaf(n, p.num - 1)

(***************************************************************************)
(* The statements of a C function run in order, each on the table the      *)
(* previous one left.  The table a statement works on is the first         *)
(* argument of its operator, so a nest of calls runs from the innermost    *)
(* line outwards and the argument lines below it follow program order.     *)
(* Where later statements read what earlier ones wrote, the function goes  *)
(* on in a numbered operator (f_1, f_2, ...) that receives that table.     *)
(***************************************************************************)
\* *field(dst) = *field(src) through two page pointers.
CopyField(m, dst, f, src, g) == SetField(m, dst, f, PageOf(m, src)[g])

\* *node_parent(get_page(*internal_node_right_child(node))) = parent_id
SetRightChildParent(m, node, parent_id) ==
  SetParentOf(m, PageOf(m, node).next, parent_id)

\* *field(node) = *internal_node_child(src, child_num)
SetFieldToChild(m, node, f, src, child_num) ==
  IF ChildOutOfRange(PageOf(m, src), child_num) THEN Fail(m, "fatal")
  ELSE SetField(m, node, f, internal_node_child(PageOf(m, src), child_num))

\* memcpy / strncpy of the key a pointer refers to into key slot i.
SetInternalKeyFrom(m, n, i, key) == SetInternalKey(m, n, i, KeyOf(m, key))
SetInternalKeyStr(m, n, i, key) == SetInternalKey(m, n, i, strncpy(KeyOf(m, key)))

(************************ create_new_root, src/myjql.c:732-763 *************)
\* The last step with the key of the root taken from the right child.
create_new_root_3_key_of_right(m8, right_child_page_num, root_page_num, left_child_page_num) ==
  SetField(
    SetField(
      SetField(
        SetInternalKeyFrom(m8, root_page_num, 0, MaxKeyRef(m8, right_child_page_num)),
        root_page_num, "next", right_child_page_num),
      left_child_page_num, "parent", root_page_num),
    right_child_page_num, "parent", root_page_num)

create_new_root_3(m8, right_child_page_num, root_page_num, left_child_page_num) ==
  SetField(
    SetField(
      SetField(
        SetInternalKeyFrom(m8, root_page_num, 0, MaxKeyRef(m8, left_child_page_num)),
        root_page_num, "next", right_child_page_num),
      left_child_page_num, "parent", root_page_num),
    right_child_page_num, "parent", root_page_num)

\* create_new_root without set_node_root(left_child, false): the copy of the
\* old root keeps its is_root flag.
create_new_root_2_flag_kept(m2, right_child_page_num, root_page_num, left_child_page_num) ==
  create_new_root_3(
    SetChild(
      SetField(
        SetField(
          initialize_internal_node(
            SetPage(m2, left_child_page_num, PageOf(m2, root_page_num)),
            root_page_num),
          root_page_num, "root", 1),
        root_page_num, "num", 1),
      root_page_num, 0, left_child_page_num),
    right_child_page_num, root_page_num, left_child_page_num)

create_new_root_2(m2, right_child_page_num, root_page_num, left_child_page_num) ==
  \* memset, memcpy(left_child, root, PAGE_SIZE), set_node_root(left_child, false)
  create_new_root_3(
    SetChild(
      SetField(
        SetField(
          initialize_internal_node(
            SetField(
              SetPage(m2, left_child_page_num, PageOf(m2, root_page_num)),
              left_child_page_num, "root", 0),
            root_page_num),
          root_page_num, "root", 1),
        root_page_num, "num", 1),
      root_page_num, 0, left_child_page_num),
    right_child_page_num, root_page_num, left_child_page_num)

create_new_root_1(m1, right_child_page_num, root_page_num) ==
  LET left_child_page_num == get_unused_page_num(m1) IN
  create_new_root_2(
    get_page(m1, left_child_page_num),
    right_child_page_num, root_page_num, left_child_page_num)

create_new_root(m, right_child_page_num) ==
  LET root_page_num == 0 IN
  create_new_root_1(
    get_page(get_page(m, root_page_num), right_child_page_num),
    right_child_page_num, root_page_num)

(************************ insert_into_parent, src/myjql.c:766-1013 *********)
\* The insertion of (key, old_right) into a parent whose num_keys has
\* already been raised to num_keys_in_parent + 1 (lines 877-893, 952-968).
InsertRaised(m, parent, num_keys_in_parent, index, old_left, old_right, key) ==
  IF index >= num_keys_in_parent
    THEN
      LET original_rightmost_child_id == PageOf(m, parent).next IN
      SetField(
        SetInternalKeyFrom(
          SetChild(m, parent, num_keys_in_parent, original_rightmost_child_id),
          parent, num_keys_in_parent, key),
        parent, "next", old_right)
    ELSE
      SetChild(
        SetInternalKeyFrom(
          SetChild(
            CopyLoop(m, parent, parent, num_keys_in_parent, index, -1, 0, -1),
            parent, index, old_left),
          parent, index, key),
        parent, index + 1, old_right)

\* Lines 768-806: the node that split is the root.
InsertIntoParentRoot_2(m11, old_right_page_id, root_page_num, new_left_child_id) ==
  SetParentOf(
    SetRightChildParent(
      SetChildParents(m11, new_left_child_id, 0,
      PageOf(m11, new_left_child_id).num, new_left_child_id),
      new_left_child_id, new_left_child_id),
    old_right_page_id, root_page_num)

InsertIntoParentRoot_1(m1, old_right_page_id, key_to_liftup, root_page_num, new_left_child_id) ==
  InsertIntoParentRoot_2(
    SetField(
      SetInternalKeyFrom(
        SetField(
          SetChild(
            SetField(
              SetField(
                initialize_internal_node(
                  SetField(
                    SetField(
                      SetPage(m1, new_left_child_id, PageOf(m1, root_page_num)),
                      new_left_child_id, "type", NODE_INTERNAL),
                    new_left_child_id, "root", 0),
                  root_page_num),
                root_page_num, "root", 1),
              root_page_num, "num", 1),
            root_page_num, 0, new_left_child_id),
          root_page_num, "next", old_right_page_id),
        root_page_num, 0, key_to_liftup),
      new_left_child_id, "parent", root_page_num),
    old_right_page_id, root_page_num, new_left_child_id)

InsertIntoParentRoot(m, old_right_page_id, key_to_liftup) ==
  LET root_page_num == 0
      new_left_child_id == get_unused_page_num(m)
  IN
  InsertIntoParentRoot_1(
    get_page(get_page(m, new_left_child_id), root_page_num),
    old_right_page_id, key_to_liftup, root_page_num, new_left_child_id)

\* Lines 814-860: the parent has room.
InsertIntoParentRoom_3(m2, old_right_page_id, key_to_liftup, parent_of_old_id, num_keys_in_parent) ==
  SetParentOf(
    SetField(
      SetInternalKeyFrom(
        SetChild(m2, parent_of_old_id, num_keys_in_parent,
        PageOf(m2, parent_of_old_id).next),
        parent_of_old_id, num_keys_in_parent, key_to_liftup),
      parent_of_old_id, "next", old_right_page_id),
    old_right_page_id, parent_of_old_id)

InsertIntoParentRoom_2(m1, old_left_page_id, old_right_page_id, key_to_liftup, parent_of_old_id, num_keys_in_parent, index) ==
  LET parent_max_key == MaxKeyRef(m1, parent_of_old_id) IN
  IF strcmp(KeyOf(m1, key_to_liftup), KeyOf(m1, parent_max_key)) >= 0
    THEN
      InsertIntoParentRoom_3(
        SetField(m1, parent_of_old_id, "num", num_keys_in_parent + 1),
        old_right_page_id, key_to_liftup, parent_of_old_id, num_keys_in_parent)
    ELSE
      \* num_keys is still num_keys_in_parent here
      SetField(
        SetParentOf(
          SetChild(
            SetInternalKeyFrom(
              SetField(
                SetChild(
                  CopyLoop(m1, parent_of_old_id, parent_of_old_id,
                  num_keys_in_parent, index, -1, 0, -1),
                  parent_of_old_id, index, old_left_page_id),
                old_left_page_id, "parent", parent_of_old_id),
              parent_of_old_id, index, key_to_liftup),
            parent_of_old_id, index + 1, old_right_page_id),
          old_right_page_id, parent_of_old_id),
        parent_of_old_id, "num", num_keys_in_parent + 1)

InsertIntoParentRoom_1(m0, old_left_page_id, old_right_page_id, key_to_liftup, parent_of_old_id, num_keys_in_parent) ==
  LET parent0 == PageOf(m0, parent_of_old_id)
      index == internal_node_find_child(parent0, KeyOf(m0, key_to_liftup))
  IN
  InsertIntoParentRoom_2(
    get_page(m0, parent0.next),
    old_left_page_id, old_right_page_id, key_to_liftup, parent_of_old_id, num_keys_in_parent, index)

InsertIntoParentRoom(m, old_left_page_id, old_right_page_id, key_to_liftup, parent_of_old_id, num_keys_in_parent) ==
  InsertIntoParentRoom_1(
    FindChildCheck(m, parent_of_old_id),
    old_left_page_id, old_right_page_id, key_to_liftup, parent_of_old_id, num_keys_in_parent)

\* Lines 866-941: the full parent is the root.
InsertIntoParentSplitRoot_2(m6, parent_of_old_id, new_left_part_id, new_right_part_id) ==
  LET temp == PageOf(m6, parent_of_old_id).num
      left_part_root_num_cells == (temp - 1) \div 2
      right_part_root_num_cells == (temp - 1) - left_part_root_num_cells
      mid == left_part_root_num_cells
      mid_key == internal_node_key(PageOf(m6, parent_of_old_id), mid)
  IN
  SetField(
    SetField(
      SetInternalKey(
        SetField(
          SetChild(
            SetField(
              SetField(
                initialize_internal_node(
                  SetRightChildParent(
                    SetChildParents(
                      SetRightChildParent(
                        SetChildParents(
                          CopyField(
                            CopyLoop(
                              SetFieldToChild(
                                CopyLoop(
                                  SetField(
                                    SetField(m6, new_left_part_id, "num", left_part_root_num_cells),
                                    new_right_part_id, "num", right_part_root_num_cells),
                                  new_left_part_id, parent_of_old_id, 0, left_part_root_num_cells, 1, 0, 0),
                                new_left_part_id, "next", parent_of_old_id, left_part_root_num_cells),
                              new_right_part_id, parent_of_old_id, 0,
                              right_part_root_num_cells, 1, 0, left_part_root_num_cells + 1),
                            new_right_part_id, "next", parent_of_old_id, "next"),
                          new_left_part_id, 0, left_part_root_num_cells, new_left_part_id),
                        new_left_part_id, new_left_part_id),
                      new_right_part_id, 0, right_part_root_num_cells, new_right_part_id),
                    new_right_part_id, new_right_part_id),
                  parent_of_old_id),
                parent_of_old_id, "root", 1),
              parent_of_old_id, "num", 1),
            parent_of_old_id, 0, new_left_part_id),
          parent_of_old_id, "next", new_right_part_id),
        parent_of_old_id, 0, mid_key),
      new_left_part_id, "parent", parent_of_old_id),
    new_right_part_id, "parent", parent_of_old_id)

InsertIntoParentSplitRoot_1(m1, old_left_page_id, old_right_page_id, key_to_liftup, parent_of_old_id, num_keys_in_parent, key_to_liftup_index, new_left_part_id) ==
  LET new_right_part_id == get_unused_page_num(m1) IN
  InsertIntoParentSplitRoot_2(
    InsertRaised(
      SetField(
        initialize_internal_node(
          initialize_internal_node(
            get_page(m1, new_right_part_id),
            new_left_part_id),
          new_right_part_id),
        parent_of_old_id, "num", num_keys_in_parent + 1),
      parent_of_old_id, num_keys_in_parent, key_to_liftup_index,
      old_left_page_id, old_right_page_id, key_to_liftup),
    parent_of_old_id, new_left_part_id, new_right_part_id)

InsertIntoParentSplitRoot(m, old_left_page_id, old_right_page_id, key_to_liftup, parent_of_old_id, num_keys_in_parent, key_to_liftup_index) ==
  LET new_left_part_id == get_unused_page_num(m) IN
  InsertIntoParentSplitRoot_1(
    get_page(m, new_left_part_id),
    old_left_page_id, old_right_page_id, key_to_liftup, parent_of_old_id, num_keys_in_parent, key_to_liftup_index, new_left_part_id)

\* Lines 944-1005: the full parent is not the root.  The result is the
\* table and the arguments of the recursive call.
InsertIntoParentSplit_1(m3, m, parent_of_old_id, right_part_id, mid_liftup_index, right_part_size, left_part_size) ==
  LET reserved_child_for_leftpart ==
        internal_node_child(PageOf(m3, parent_of_old_id), mid_liftup_index)
  IN
  [m |-> SetField(
           SetChildParents(
             SetField(
               SetChildParents(
                 SetRightChildParent(
                   CopyField(
                     CopyLoop(
                       SetField(
                         CheckChild(m3, parent_of_old_id, mid_liftup_index),
                         right_part_id, "num", right_part_size),
                       right_part_id, parent_of_old_id, 0, right_part_size, 1, 0, left_part_size + 1),
                     right_part_id, "next", parent_of_old_id, "next"),
                   right_part_id, right_part_id),
                 right_part_id, 0, right_part_size, right_part_id),
               parent_of_old_id, "num", left_part_size),
             parent_of_old_id, 0, left_part_size, parent_of_old_id),
           parent_of_old_id, "next", reserved_child_for_leftpart), left |-> parent_of_old_id, right |-> right_part_id,
  key |-> KeyInInternal(parent_of_old_id, mid_liftup_index)]

InsertIntoParentSplit(m, old_left_page_id, old_right_page_id, key_to_liftup, parent_of_old_id, num_keys_in_parent, key_to_liftup_index) ==
  LET right_part_id == get_unused_page_num(m)
      mid_liftup_index == (num_keys_in_parent + 1) \div 2
      right_part_size == num_keys_in_parent \div 2
      left_part_size == num_keys_in_parent - right_part_size
  IN
  InsertIntoParentSplit_1(
    InsertRaised(
      SetField(
        get_page(m, right_part_id),
        parent_of_old_id, "num", num_keys_in_parent + 1),
      parent_of_old_id, num_keys_in_parent, key_to_liftup_index,
      old_left_page_id, old_right_page_id, key_to_liftup),
    m, parent_of_old_id, right_part_id, mid_liftup_index, right_part_size, left_part_size)

\* A chain of parents longer than the number of page slots is a cycle of
\* parent fields: the recursion never returns.
RECURSIVE insert_into_parent_rec(_, _, _, _, _)
insert_into_parent_rec_4(r, fuel) ==
  IF fuel = 0 THEN Fail(r.m, "overflow")
  ELSE insert_into_parent_rec(r.m, r.left, r.right, r.key, fuel - 1)

insert_into_parent_rec_3(m3, old_left_page_id, old_right_page_id, key_to_liftup, fuel, parent_of_old_id, num_keys_in_parent) ==
  LET key_to_liftup_index ==
        internal_node_find_child(PageOf(m3, parent_of_old_id),
                                 KeyOf(m3, key_to_liftup))
  IN IF parent_of_old_id = 0
       THEN InsertIntoParentSplitRoot(m3, old_left_page_id, old_right_page_id,
              key_to_liftup, parent_of_old_id, num_keys_in_parent,
              key_to_liftup_index)
       ELSE
         insert_into_parent_rec_4(
           InsertIntoParentSplit(m3, old_left_page_id, old_right_page_id,
           key_to_liftup, parent_of_old_id, num_keys_in_parent,
           key_to_liftup_index),
           fuel)

insert_into_parent_rec_2(m2, old_left_page_id, old_right_page_id, key_to_liftup, fuel, parent_of_old_id) ==
  LET num_keys_in_parent == PageOf(m2, parent_of_old_id).num IN
  IF m2.st # "ok" THEN m2
  ELSE IF num_keys_in_parent <= INTERNAL_NODE_MAX_CELLS - 1
    THEN InsertIntoParentRoom(m2, old_left_page_id, old_right_page_id,
                              key_to_liftup, parent_of_old_id, num_keys_in_parent)
  ELSE
    insert_into_parent_rec_3(
      FindChildCheck(m2, parent_of_old_id),
      old_left_page_id, old_right_page_id, key_to_liftup, fuel, parent_of_old_id, num_keys_in_parent)

insert_into_parent_rec_1(m1, old_left_page_id, old_right_page_id, key_to_liftup, fuel) ==
  LET parent_of_old_id == PageOf(m1, old_left_page_id).parent IN
  insert_into_parent_rec_2(
    get_page(m1, parent_of_old_id),
    old_left_page_id, old_right_page_id, key_to_liftup, fuel, parent_of_old_id)

insert_into_parent_rec(m, old_left_page_id, old_right_page_id, key_to_liftup, fuel) ==
  LET root_page_num == 0 IN
  IF m.st # "ok" THEN m
  ELSE IF old_left_page_id = root_page_num
    THEN InsertIntoParentRoot(m, old_right_page_id, key_to_liftup)
  ELSE
    insert_into_parent_rec_1(
      get_page(m, old_left_page_id),
      old_left_page_id, old_right_page_id, key_to_liftup, fuel)

insert_into_parent(m, old_left_page_id, old_right_page_id, key_to_liftup) ==
  insert_into_parent_rec(m, old_left_page_id, old_right_page_id, key_to_liftup,
                         TABLE_MAX_PAGES)

(************************ internal_node_insert, src/myjql.c:1016-1110 ******)
\* Lines 1052-1100: the parent holds more than INTERNAL_NODE_MAX_CELLS keys.
InternalNodeSplit(m, parent_page_id, original_num_keys) ==
  LET new_internal_page_id == get_unused_page_num(m)
      mid_index == (1 + original_num_keys) \div 2
      left_child_num_keys == mid_index
      right_child_num_keys == original_num_keys - left_child_num_keys
  IN
  insert_into_parent(
    SetChildParents(
      SetField(
        SetRightChildParent(
          SetFieldToChild(
            SetChildParents(
              SetRightChildParent(
                CopyField(
                  CopyLoop(
                    SetField(
                      get_page(m, new_internal_page_id),
                      new_internal_page_id, "num", right_child_num_keys),
                    new_internal_page_id, parent_page_id, 0,
                    right_child_num_keys, 1, 0, left_child_num_keys + 1),
                  new_internal_page_id, "next", parent_page_id, "next"),
                new_internal_page_id, new_internal_page_id),
              new_internal_page_id, 0, right_child_num_keys, new_internal_page_id),
            parent_page_id, "next", parent_page_id, mid_index),
          parent_page_id, parent_page_id),
        parent_page_id, "num", left_child_num_keys),
      parent_page_id, 0, left_child_num_keys, parent_page_id),
    parent_page_id, new_internal_page_id, KeyInInternal(parent_page_id, mid_index))

\* Lines 1102-1108: every child of the parent is told its parent again.
ReparentChildren(m, parent_page_id) ==
  SetRightChildParent(
    SetChildParents(m, parent_page_id, 0, PageOf(m, parent_page_id).num,
    parent_page_id),
    parent_page_id, parent_page_id)

internal_node_insert_5(m5, parent_page_id, original_num_keys) ==
  IF m5.st # "ok" THEN m5
  ELSE IF original_num_keys + 1 > INTERNAL_NODE_MAX_CELLS
    THEN InternalNodeSplit(m5, parent_page_id, original_num_keys)
  ELSE ReparentChildren(m5, parent_page_id)

internal_node_insert_4(m4, parent_page_id, child_page_id, key_to_insert, parent_max_key, index, rightmost_child_page_id, original_num_keys) ==
  internal_node_insert_5(
    IF strcmp(KeyOf(m4, key_to_insert), KeyOf(m4, parent_max_key)) >= 0
    THEN
      SetField(
        SetInternalKeyFrom(
          SetChild(m4, parent_page_id, original_num_keys,
          rightmost_child_page_id),
          parent_page_id, original_num_keys, key_to_insert),
        parent_page_id, "next", child_page_id)
    ELSE
      SetInternalKeyStr(
        SetChild(
          CopyLoop(m4, parent_page_id, parent_page_id,
          original_num_keys, index, -1, 0, -1),
          parent_page_id, index + 1, child_page_id),
        parent_page_id, index, key_to_insert),
    parent_page_id, original_num_keys)

internal_node_insert_3(m3, parent_page_id, child_page_id, key_to_insert, parent_max_key, index, rightmost_child_page_id) ==
  LET original_num_keys == PageOf(m3, parent_page_id).num IN
  internal_node_insert_4(
    SetField(m3, parent_page_id, "num", original_num_keys + 1),
    parent_page_id, child_page_id, key_to_insert, parent_max_key, index, rightmost_child_page_id, original_num_keys)

internal_node_insert_2(m2, parent_page_id, child_page_id, key_to_insert, parent_max_key) ==
  LET index == internal_node_find_child(PageOf(m2, parent_page_id),
                                        KeyOf(m2, key_to_insert))
      rightmost_child_page_id == PageOf(m2, parent_page_id).next
  IN
  internal_node_insert_3(
    get_page(m2, rightmost_child_page_id),
    parent_page_id, child_page_id, key_to_insert, parent_max_key, index, rightmost_child_page_id)

internal_node_insert_1(m1, parent_page_id, child_page_id, key_to_insert) ==
  LET parent_max_key == MaxKeyRef(m1, parent_page_id) IN
  internal_node_insert_2(
    FindChildCheck(m1, parent_page_id),
    parent_page_id, child_page_id, key_to_insert, parent_max_key)

internal_node_insert(m, parent_page_id, child_page_id, key_to_insert) ==
  internal_node_insert_1(
    get_page(get_page(m, parent_page_id), child_page_id),
    parent_page_id, child_page_id, key_to_insert)

(************************ leaf insert, src/myjql.c:1113-1215 ***************)
\* The cell that the split loop writes for position i of the
\* LEAF_NODE_MAX_CELLS + 1 cells (lines 1145-1152).  The loop runs
\* downwards, so a cell of the old leaf is read before it is overwritten.
\* SplitCell that keeps the old cells where they are and puts the new cell
\* after them.
SplitCell_new_last(old, cell_num, value, key, i) ==
  IF i = LEAF_NODE_MAX_CELLS
    THEN LET c == serialize_row(value) IN <<key[1], key[2], key[3], c[4]>>
  ELSE leaf_node_cell(old, i)

SplitCell(old, cell_num, value, key, i) ==
  IF i = cell_num
    THEN LET c == serialize_row(value) IN <<key[1], key[2], key[3], c[4]>>
  ELSE IF i > cell_num THEN leaf_node_cell(old, i - 1)
  ELSE leaf_node_cell(old, i)

RECURSIVE SplitLoop(_, _, _, _, _, _, _)
SplitLoop(m, old_page_num, new_page_num, cell_num, value, key, i) ==
  IF m.st # "ok" \/ i < 0 THEN m
  ELSE
    LET to_new == i >= LEAF_NODE_LEFT_SPLIT_COUNT
        destination_node == IF to_new THEN new_page_num ELSE old_page_num
        index_within_node == IF to_new THEN i - LEAF_NODE_LEFT_SPLIT_COUNT ELSE i
    IN
    SplitLoop(
      SetField(
        SetField(
          SetCell(m, destination_node, index_within_node,
          SplitCell(PageOf(m, old_page_num), cell_num, value, key, i)),
          old_page_num, "num", LEAF_NODE_LEFT_SPLIT_COUNT),
        new_page_num, "num", LEAF_NODE_RIGHT_SPLIT_COUNT),
      old_page_num, new_page_num, cell_num, value, key, i - 1)

leaf_node_split_and_insert_2(m7, old_page_num, new_page_num) ==
  IF PageOf(m7, old_page_num).root # 0
  THEN create_new_root(m7, new_page_num)
  ELSE
    LET parent_page_num == PageOf(m7, old_page_num).parent
        new_max == MaxKeyRef(m7, old_page_num)
    IN internal_node_insert(get_page(m7, parent_page_num), parent_page_num,
                            new_page_num, new_max)

leaf_node_split_and_insert_1(m1, cursor, key, value, old_page_num) ==
  LET new_page_num == get_unused_page_num(m1) IN
  leaf_node_split_and_insert_2(
    SplitLoop(
      SetField(
        CopyField(
          CopyField(
            initialize_leaf_node(
              get_page(m1, new_page_num),
              new_page_num),
            new_page_num, "parent", old_page_num, "parent"),
          new_page_num, "next", old_page_num, "next"),
        old_page_num, "next", new_page_num),
      old_page_num, new_page_num, cursor.cell_num, value, key, LEAF_NODE_MAX_CELLS),
    old_page_num, new_page_num)

leaf_node_split_and_insert(m, cursor, key, value) ==
  LET old_page_num == cursor.page_num IN
  leaf_node_split_and_insert_1(
    get_page(m, old_page_num),
    cursor, key, value, old_page_num)

leaf_node_insert_1(m1, cursor, key, value) ==
  LET num_cells == PageOf(m1, cursor.page_num).num IN
  IF m1.st # "ok" THEN m1
  ELSE IF num_cells >= LEAF_NODE_MAX_CELLS
    THEN leaf_node_split_and_insert(m1, cursor, key, value)
  ELSE
    SetCell(
      SetLeafKey(
        SetField(
          IF cursor.cell_num < num_cells
          THEN CopyLoop(m1, cursor.page_num, cursor.page_num, num_cells,
                        cursor.cell_num, -1, 0, -1)
          ELSE m1,
          cursor.page_num, "num", num_cells + 1),
        cursor.page_num, cursor.cell_num, value.b),
      cursor.page_num, cursor.cell_num, serialize_row(value))

leaf_node_insert(m, cursor, key, value) ==
  leaf_node_insert_1(
    get_page(m, cursor.page_num),
    cursor, key, value)

\* statement.row holds the row to insert.
b_tree_insert_1(cursor, row_to_insert) ==
  leaf_node_insert(cursor.m, cursor, row_to_insert.b, row_to_insert)

b_tree_insert(m, row_to_insert) ==
  b_tree_insert_1(
    table_find(m, row_to_insert.b),
    row_to_insert)

(************************ delete, src/myjql.c:1222-1735 ********************)
adjust_root(m, node_id) ==
  LET node == PageOf(m, node_id) IN
  IF node.type = NODE_INTERNAL /\ node.num < 1 THEN Fail(m, "fatal") ELSE m

internalnode_redistribute_2(m3, cur_node, parent_node, value_index, key_from_parent, key_from_sib, child_id_from_sib) ==
  LET cur_node_size == PageOf(m3, cur_node).num IN
  SetChild(
    SetInternalKey(
      SetInternalKey(
        SetField(m3, cur_node, "num", cur_node_size + 1),
        cur_node, 0, key_from_parent),
      parent_node, value_index, strncpy(key_from_sib)),
    cur_node, 0, child_id_from_sib)

internalnode_redistribute_1(m3, cur_node, parent_node, value_index, key_from_parent, key_from_sib, child_id_from_sib) ==
  LET cur_node_size == PageOf(m3, cur_node).num + 1 IN
  SetField(
    SetInternalKey(
      SetInternalKey(
        SetField(m3, cur_node, "num", cur_node_size),
        cur_node, cur_node_size - 1, strncpy(key_from_parent)),
      parent_node, value_index, strncpy(key_from_sib)),
    cur_node, "next", child_id_from_sib)

internalnode_redistribute(m, cur_node, sib_node, parent_node, value_index, rightmost) ==
  LET key_from_parent == strncpy(internal_node_key(PageOf(m, parent_node), value_index))
      sib == PageOf(m, sib_node)
      sib_node_size == sib.num
  IN
  IF rightmost
    THEN
      LET key_from_sib == strncpy(internal_node_key(sib, sib_node_size - 1))
          child_id_from_sib == sib.next
          new_rightmost_id == internal_node_child(sib, sib_node_size - 1)
      IN
      internalnode_redistribute_2(
        SetField(
          SetField(
            CheckChild(m, sib_node, sib_node_size - 1),
            sib_node, "next", new_rightmost_id),
          sib_node, "num", sib_node_size - 1),
        cur_node, parent_node, value_index, key_from_parent, key_from_sib, child_id_from_sib)
    ELSE
      LET key_from_sib == strncpy(internal_node_key(sib, 0))
          child_id_from_sib == internal_node_child(sib, 0)
      IN
      internalnode_redistribute_1(
        SetField(
          CopyLoop(
            CheckChild(m, sib_node, 0),
            sib_node, sib_node, 0, sib_node_size - 1, 1, 0, 1),
          sib_node, "num", sib_node_size - 1),
        cur_node, parent_node, value_index, key_from_parent, key_from_sib, child_id_from_sib)

leaf_redistribute_2(m2, sib_node, parent_node, value_index, key_to_replace) ==
  LET sib_node_size == PageOf(m2, sib_node).num IN
  SetInternalKey(
    SetField(
      CopyLoop(m2, sib_node, sib_node, 0, sib_node_size - 1, 1, 0, 1),
      sib_node, "num", sib_node_size - 1),
    parent_node, value_index, key_to_replace)

leaf_redistribute_1(m1, node, sib_node, parent_node, value_index, left_sib_size, left_sib_last) ==
  SetInternalKey(
    SetCell(m1, node, 0, leaf_node_cell(PageOf(m1, sib_node), left_sib_size - 1)),
    parent_node, value_index, left_sib_last)

leaf_redistribute(m, node, sib_node, parent_node, value_index) ==
  LET next_id == PageOf(m, node).next
      has_right_sib == next_id # 0
  IN
  IF has_right_sib
    THEN
      LET cur_node_num_cells == PageOf(m, node).num
          key_to_replace == leaf_node_key(PageOf(m, sib_node), 0)
      IN
      leaf_redistribute_2(
        SetField(
          SetCell(m, node, cur_node_num_cells, leaf_node_cell(PageOf(m, sib_node), 0)),
          node, "num", cur_node_num_cells + 1),
        sib_node, parent_node, value_index, key_to_replace)
    ELSE
      LET left_sib_size == PageOf(m, sib_node).num
          left_sib_last == leaf_node_key(PageOf(m, sib_node), left_sib_size - 1)
          cur_node_size == PageOf(m, node).num
      IN
      leaf_redistribute_1(
        CopyLoop(m, node, node, cur_node_size, 0, -1, 0, -1),
        node, sib_node, parent_node, value_index, left_sib_size, left_sib_last)

leafnode_move_all_to_1(m1, src, dst, num_cells_in_src) ==
  LET num_cells_in_dst == PageOf(m1, dst).num IN
  SetField(
    CopyField(
      SetField(
        SetField(m1, dst, "num", num_cells_in_src + num_cells_in_dst),
        src, "num", 0),
      dst, "next", src, "next"),
    src, "next", 0)

leafnode_move_all_to(m, src, dst) ==
  LET num_cells_in_src == PageOf(m, src).num
      start_in_dst == PageOf(m, dst).num
  IN
  leafnode_move_all_to_1(
    CopyLoop(m, dst, src, 0, num_cells_in_src, 1, start_in_dst, 0),
    src, dst, num_cells_in_src)

\* merge_or_redistribute, leafnode_merge and internalnode_merge call each
\* other up the parent fields; fuel bounds the climb: a climb longer than
\* the number of page slots is on a cycle of parent fields and ends the
\* process by exhausting the stack.
RECURSIVE merge_or_redistribute_rec(_, _, _, _)
RECURSIVE leafnode_merge(_, _, _, _, _, _, _)
RECURSIVE internalnode_merge(_, _, _, _, _, _, _)

\* Lines 1438-1472: the end of internalnode_merge.
InternalMergeParent(m, cur_page, parent_id, key_to_borrow_buf, fuel) ==
  IF m.st # "ok" THEN m
  ELSE IF parent_id = 0
    THEN
      LET parent_size == PageOf(m, parent_id).num IN
      IF parent_size <= 0
        THEN
          SetRightChildParent(
            SetChildParents(
              SetField(
                SetPage(
                  SetPage(m, parent_id, PageOf(m, cur_page)),
                  cur_page, ZeroPage),
                parent_id, "root", 1),
              parent_id, 0, parent_size, parent_id),
            parent_id, parent_id)
        ELSE m
  ELSE IF PageOf(m, parent_id).num >= INTERNAL_NODE_MIN_CELLS THEN m
  ELSE merge_or_redistribute_rec(m, parent_id, key_to_borrow_buf, fuel)

internalnode_merge_3(m4, sib_page, cur_page, parent_id, rightmost, fuel, sib_size, key_to_borrow_buf, cur_size) ==
  InternalMergeParent(
    IF rightmost
    THEN
      LET leftpart_rightmost_id == PageOf(m4, sib_page).next IN
      SetPage(
        SetChild(
          CopyLoop(
            CopyLoop(m4, cur_page, cur_page, 0, cur_size, 1, sib_size, 0),
            cur_page, sib_page, 0, sib_size, 1, 0, 0),
          cur_page, sib_size, leftpart_rightmost_id),
        sib_page, ZeroPage)
    ELSE
      CopyField(
        CopyLoop(m4, cur_page, sib_page, 0, sib_size, 1, cur_size, 0),
        cur_page, "next", sib_page, "next"),
    cur_page, parent_id, key_to_borrow_buf, fuel)

internalnode_merge_2(m1, sib_page, cur_page, parent_id, rightmost, fuel, child_index_in_parent, sib_size, key_to_borrow_buf, cur_size) ==
  LET num_keys_in_parent == PageOf(m1, parent_id).num IN
  internalnode_merge_3(
    SetField(
      CopyLoop(
        SetField(m1, parent_id, "num", num_keys_in_parent - 1),
        parent_id, parent_id, child_index_in_parent, num_keys_in_parent - 1, 1, 0, 1),
      cur_page, "num", sib_size + cur_size),
    sib_page, cur_page, parent_id, rightmost, fuel, sib_size, key_to_borrow_buf, cur_size)

internalnode_merge_1(m0, sib_page, cur_page, parent_id, key, rightmost, fuel) ==
  LET child_index_in_parent == internal_node_find_child(PageOf(m0, parent_id), key)
      cur_size0 == PageOf(m0, cur_page).num
      sib_size == PageOf(m0, sib_page).num
      key_to_borrow_buf == internal_node_key(PageOf(m0, parent_id), child_index_in_parent)
      cur_size == cur_size0 + 1
  IN
  internalnode_merge_2(
    SetInternalKey(m0, cur_page, cur_size0, key_to_borrow_buf),
    sib_page, cur_page, parent_id, rightmost, fuel, child_index_in_parent, sib_size, key_to_borrow_buf, cur_size)

internalnode_merge(m, sib_page, cur_page, parent_id, key, rightmost, fuel) ==
  internalnode_merge_1(
    FindChildCheck(m, parent_id),
    sib_page, cur_page, parent_id, key, rightmost, fuel)

\* Lines 1535-1555: the end of leafnode_merge.
LeafMergeParent(m, sib_page, cur_page, parent_id, key, rightmost, fuel) ==
  IF m.st # "ok" THEN m
  ELSE IF parent_id = 0
    THEN
      IF PageOf(m, parent_id).num = 0
        THEN
          LET kept == IF rightmost THEN sib_page ELSE cur_page IN
          SetField(
            SetField(
              SetField(
                SetField(
                  SetPage(m, parent_id, PageOf(m, kept)),
                  kept, "num", 0),
                parent_id, "type", NODE_LEAF),
              parent_id, "root", 1),
            parent_id, "next", 0)
        ELSE m
  ELSE merge_or_redistribute_rec(m, parent_id, key, fuel)

leafnode_merge_1(m2, sib_page, cur_page, parent_id, key, rightmost, fuel) ==
  LET parent == PageOf(m2, parent_id)
      key_index == internal_node_find_child(parent, key)
      key_num == parent.num
  IN
  LeafMergeParent(
    SetField(
      IF key_index < key_num - 1
        THEN
          LET child_reserve == internal_node_child(parent, key_index) IN
          SetChild(
            CopyLoop(
              CheckChild(m2, parent_id, key_index),
              parent_id, parent_id, key_index, key_num - 1, 1, 0, 1),
            parent_id, key_index, child_reserve)
      ELSE IF key_num > 1
        THEN SetFieldToChild(m2, parent_id, "next", parent_id, key_index - 1)
      ELSE m2,
      parent_id, "num", key_num - 1),
    sib_page, cur_page, parent_id, key, rightmost, fuel)

leafnode_merge(m, sib_page, cur_page, parent_id, key, rightmost, fuel) ==
  leafnode_merge_1(
    FindChildCheck(
      IF rightmost THEN leafnode_move_all_to(m, cur_page, sib_page)
      ELSE leafnode_move_all_to(m, sib_page, cur_page),
      parent_id),
    sib_page, cur_page, parent_id, key, rightmost, fuel)

\* Lines 1590-1672: the node is below its minimum.
Underflow_2(m3, node_id, key, fuel, node_type, parent_id, child_index, rightmost, sib_node_id) ==
  LET sib_num_cells == PageOf(m3, sib_node_id).num
      is_redistribute == IF node_type = NODE_LEAF
                           THEN sib_num_cells >= 1 + LEAF_NODE_MIN_CELLS
                           ELSE sib_num_cells >= 1 + INTERNAL_NODE_MIN_CELLS
  IN
  IF m3.st # "ok" THEN m3
  ELSE IF is_redistribute
    THEN IF node_type = NODE_LEAF
           THEN leaf_redistribute(m3, node_id, sib_node_id, parent_id, child_index)
           ELSE internalnode_redistribute(m3, node_id, sib_node_id, parent_id,
                                          child_index, rightmost)
  ELSE IF node_type = NODE_LEAF
    THEN leafnode_merge(m3, sib_node_id, node_id, parent_id, key, rightmost, fuel - 1)
  ELSE internalnode_merge(m3, sib_node_id, node_id, parent_id, key, rightmost,
                          fuel - 1)

\* Lines 1617-1650: the sibling of the node and the side it is on.
PickSibling(m1, node_id, key, node_type, parent_id) ==
  LET parent_node == PageOf(m1, parent_id)
      child_index == internal_node_find_child(parent_node, key)
      num_child_in_parent == parent_node.num
      rightmost == IF node_type = NODE_LEAF
                     THEN child_index = num_child_in_parent
                     ELSE child_index >= num_child_in_parent
      from_chain == node_type = NODE_LEAF /\ ~rightmost
      sib_index == IF rightmost THEN child_index - 1 ELSE child_index + 1
  IN [child_index |-> child_index,
      rightmost |-> rightmost,
      from_chain |-> from_chain,
      sib_index |-> sib_index,
      sib_node_id |-> IF from_chain THEN PageOf(m1, node_id).next
                      ELSE internal_node_child(parent_node, sib_index)]

Underflow_1(m1, node_id, key, fuel, node_type, parent_id) ==
  LET pick == PickSibling(m1, node_id, key, node_type, parent_id) IN
  Underflow_2(
    get_page(
      IF pick.from_chain THEN m1 ELSE CheckChild(m1, parent_id, pick.sib_index),
      pick.sib_node_id),
    node_id, key, fuel, node_type, parent_id, pick.child_index, pick.rightmost,
    pick.sib_node_id)

Underflow(m, node_id, key, fuel) ==
  LET node_type == PageOf(m, node_id).type
      parent_id == PageOf(m, node_id).parent
  IN
  Underflow_1(
    FindChildCheck(get_page(m, parent_id), parent_id),
    node_id, key, fuel, node_type, parent_id)

merge_or_redistribute_rec(m, node_id, key, fuel) ==
  IF m.st # "ok" THEN m
  ELSE IF node_id = 0 THEN adjust_root(m, node_id)
  ELSE IF fuel = 0 THEN Fail(m, "overflow")
  ELSE
    LET node == PageOf(m, node_id)
        enough == IF node.type = NODE_LEAF
                    THEN node.num >= LEAF_NODE_MAX_CELLS \div 2
                    ELSE node.num >= INTERNAL_NODE_MIN_CELLS
    IN IF enough THEN m ELSE Underflow(m, node_id, key, fuel)

merge_or_redistribute(m, node_id, key) ==
  merge_or_redistribute_rec(m, node_id, key, TABLE_MAX_PAGES)

\* Lines 1697-1704: the cell at index is cleared, the cells after it move
\* one place down and num_cells drops by one.
RemoveCell(m1, page_id, index) ==
  LET leaf_num_cells == PageOf(m1, page_id).num IN
  SetField(
    CopyLoop(
      SetCell(m1, page_id, index, ZeroCell),
      page_id, page_id, index, leaf_num_cells - 1, 1, 0, 1),
    page_id, "num", leaf_num_cells - 1)

\* leaf_node_delete: [m, deleted]; deleted is the bool it returns.
\* leaf_node_delete without the comparison of the key at the cursor with
\* keys_to_delete.
leaf_node_delete_1_any_key(m1, m, page_id, cell_num, keys_to_delete) ==
  LET node == PageOf(m1, page_id)
      leaf_num_cells == node.num
      index == cell_num
  IN
  IF m1.st # "ok" THEN [m |-> m1, deleted |-> FALSE]
  ELSE IF leaf_num_cells = 0 \/ cell_num = leaf_num_cells
    THEN [m |-> m1, deleted |-> FALSE]
  ELSE
    [m |-> merge_or_redistribute(
      RemoveCell(m1, page_id, index),
      page_id, keys_to_delete), deleted |-> TRUE]

\* leaf_node_delete when it leaves the cell where it is.
leaf_node_delete_1_cell_kept(m1, m, page_id, cell_num, keys_to_delete) ==
  LET node == PageOf(m1, page_id)
      leaf_num_cells == node.num
      key_at_index == leaf_node_key(node, cell_num)
  IN
  IF m1.st # "ok" THEN [m |-> m1, deleted |-> FALSE]
  ELSE IF strcmp(key_at_index, keys_to_delete) # 0 \/ leaf_num_cells = 0
          \/ cell_num = leaf_num_cells
    THEN [m |-> m1, deleted |-> FALSE]
  ELSE
    [m |-> merge_or_redistribute(m1, page_id, keys_to_delete), deleted |-> TRUE]

leaf_node_delete_1(m1, m, page_id, cell_num, keys_to_delete) ==
  LET node == PageOf(m1, page_id)
      leaf_num_cells == node.num
      index == cell_num
      key_at_index == leaf_node_key(node, index)
  IN
  IF m1.st # "ok" THEN [m |-> m1, deleted |-> FALSE]
  ELSE IF strcmp(key_at_index, keys_to_delete) # 0 \/ leaf_num_cells = 0
          \/ cell_num = leaf_num_cells
    THEN [m |-> m1, deleted |-> FALSE]
  ELSE
    [m |-> merge_or_redistribute(
      RemoveCell(m1, page_id, index),
      page_id, keys_to_delete), deleted |-> TRUE]

leaf_node_delete(m, page_id, cell_num, keys_to_delete) ==
  leaf_node_delete_1(
    get_page(m, page_id),
    m, page_id, cell_num, keys_to_delete)

\* b_tree_delete: every round of the loop takes a fresh Cursor from malloc
\* and reads its end_of_table, which nothing has set.  The Cursor of a
\* round is freed before the next one is allocated, so every round is
\* handed the same block and reads the same byte: end_of_table is that
\* byte.  A loop that has removed more cells than the pages can hold never
\* ends.
RECURSIVE DeleteLoop(_, _, _, _)
DeleteLoop_2(test_ans, keys_to_delete, end_of_table, round) ==
  IF ~test_ans.deleted THEN test_ans.m
  ELSE DeleteLoop(test_ans.m, keys_to_delete, end_of_table, round + 1)

DeleteLoop_1(cursor, keys_to_delete, end_of_table, round) ==
  IF cursor.m.st # "ok" THEN cursor.m
  ELSE IF end_of_table THEN cursor.m
  ELSE IF round > MaxRows THEN Fail(cursor.m, "hang")
  ELSE
    DeleteLoop_2(
      leaf_node_delete(cursor.m, cursor.page_num, cursor.cell_num, keys_to_delete),
      keys_to_delete, end_of_table, round)

DeleteLoop(m, keys_to_delete, end_of_table, round) ==
  DeleteLoop_1(
    table_find(m, keys_to_delete),
    keys_to_delete, end_of_table, round)

b_tree_delete(m, keys_to_delete, end_of_table) ==
  DeleteLoop(m, keys_to_delete, end_of_table, 0)

(************************ open and close, src/myjql.c:97-202 ***************)
\* pager_open: num_pages is the number of pages of the file, every slot of
\* the cache is NULL.
pager_open(fl) == Mem(<<>>, Len(fl), fl)

db_open(fl) ==
  LET m == pager_open(fl)
  IN IF m.num_pages = 0
       THEN LET root_page_num == 0
                m1 == initialize_leaf_node(get_page(m, root_page_num), root_page_num)
            IN SetField(m1, root_page_num, "root", 1)
       ELSE m

\* pager_flush of every resident page below num_pages: page i is written at
\* offset i * PAGE_SIZE; the file grows to hold it and the bytes never
\* written read as zero.
Max(a, b) == IF a >= b THEN a ELSE b

Flushed(m) == {i \in DOMAIN m.pages : i < m.num_pages}

db_close(m) ==
  LET last == IF Flushed(m) = {} THEN 0
              ELSE (CHOOSE i \in Flushed(m) : \A j \in Flushed(m) : j <= i) + 1
      len == Max(Len(m.file), last)
  IN [n \in 1..len |->
        IF (n - 1) \in Flushed(m) THEN m.pages[n - 1]
        ELSE IF n <= Len(m.file) THEN m.file[n]
        ELSE ZeroPage]

(***************************************************************************)
(* The experimental buffer pool, src/lru.c: a replacer (a list of frames   *)
(* with a table from frame to list node), a free list and a pager with a   *)
(* page table.  It is a program of its own with its own main.              *)
(***************************************************************************)
LRU_TABLE_MAX_PAGES == 4     \* TABLE_MAX_PAGES of src/lru.c:11: the frames
PoolPages == 3               \* page numbers get_page is called with
MaxNodes == 4                \* nodes in the list of the replacer
MaxPoolCalls == 8            \* calls on the pager in one run

Frames == 0..(LRU_TABLE_MAX_PAGES - 1)
PoolPageIds == 0..(PoolPages - 1)

\* The entries of page_table_ (PAGE_TABLE_SIZE is 65536) the calls read or
\* write: those of the pages and those with the number of a frame.
PageTableIds == PoolPageIds \cup Frames

\* LRUCacheInit.  list is the nodes between head and tail, the first one
\* head.next; a node is its frame_id and a number (id) that tells it from
\* the other nodes of that frame, the two together standing for its
\* address; hash_table maps a frame to the id of a node of the frame, 0 for
\* NULL.
LRUCacheInit(capacity) ==
  [capacity |-> capacity, size |-> 0, list |-> <<>>,
   hash_table |-> [f \in 0..(capacity - 1) |-> 0], st |-> "ok"]

\* malloc of a node for a frame: an id no node of the frame in the list has.
NewNode(obj, frame_id) ==
  CHOOSE id \in 1..(Len(obj.list) + 1) :
    \A i \in DOMAIN obj.list :
      obj.list[i].frame_id = frame_id => obj.list[i].id # id

put_node_to_last(obj, node) == [obj EXCEPT !.list = Append(@, node)]

take_node_from_middle(obj, frame_id, id) ==
  LET i == CHOOSE j \in DOMAIN obj.list :
             obj.list[j].frame_id = frame_id /\ obj.list[j].id = id
  IN [obj EXCEPT !.list = SubSeq(@, 1, i - 1) \o SubSeq(@, i + 1, Len(@))]

delete(obj, frame_id) ==
  IF obj.hash_table[frame_id] = 0 THEN obj
  ELSE [take_node_from_middle(obj, frame_id, obj.hash_table[frame_id])
          EXCEPT !.size = @ - 1, !.hash_table[frame_id] = 0]

LRUCachePut(obj, frame_id) ==
  [put_node_to_last(obj, [id |-> NewNode(obj, frame_id), frame_id |-> frame_id])
     EXCEPT !.hash_table[frame_id] = NewNode(obj, frame_id), !.size = @ + 1]

\* Victim: [obj, ok, frame_id]; ok is the bool returned, frame_id what it
\* wrote to *frame_id (-1: nothing written).
Victim(obj) ==
  IF obj.size = 0 THEN [obj |-> obj, ok |-> FALSE, frame_id |-> -1]
  ELSE [obj |-> delete(obj, Head(obj.list).frame_id), ok |-> TRUE,
        frame_id |-> Head(obj.list).frame_id]

Pin(obj, frame_id) ==
  IF obj.hash_table[frame_id] # 0 THEN delete(obj, frame_id) ELSE obj

\* The while loop of UnPin: delete of the frame of tail.prev until there is
\* room.  When hash_table has no node for that frame delete changes
\* nothing and the loop runs on for ever.
RECURSIVE UnPinLoop(_)
UnPinLoop(obj) ==
  IF obj.size < obj.capacity THEN obj
  ELSE IF obj.hash_table[obj.list[Len(obj.list)].frame_id] = 0
    THEN [obj EXCEPT !.st = "hang"]
  ELSE UnPinLoop(delete(obj, obj.list[Len(obj.list)].frame_id))

UnPin(obj, frame_id) ==
  IF obj.hash_table[frame_id] # 0 THEN obj
  ELSE IF UnPinLoop(obj).st # "ok" THEN UnPinLoop(obj)
  ELSE LRUCachePut(UnPinLoop(obj), frame_id)

\* The pager before main has run.  freelist_.valid: FreeListInit has no
\* return statement, so what main stores in pager->freelist_ is the list
\* (gcc -O0) or not a pointer to it (gcc -O1, -O2).  is_dirty_ is never set
\* to true, so find_replace never calls pager_flush.  The memory of the
\* frames (pager->pages) is left out: no call looks at it but to return it.
NoCall == [op |-> "none", arg |-> 0, ok |-> FALSE, ret |-> 0]

NotStarted ==
  [started |-> FALSE, st |-> "ok", num_pages |-> 0,
   page_table_ |-> [p \in PageTableIds |-> -1],
   page_id_table_ |-> [f \in Frames |-> -1],
   replacer_ |-> LRUCacheInit(LRU_TABLE_MAX_PAGES),
   freelist_ |-> [valid |-> FALSE, frames |-> <<>>],
   last |-> NoCall, calls |-> 0]

\* main up to FreeListInit on a new file lrucache.db.
lru_main(valid) ==
  [NotStarted EXCEPT !.started = TRUE, !.freelist_.valid = valid]

is_all_pinned(pager) ==
  pager.freelist_.frames = <<>> /\ pager.replacer_.size = 0

\* find_replace: [pager, frame_id].
find_replace(pager) ==
  IF ~pager.freelist_.valid
    THEN [pager |-> [pager EXCEPT !.st = "crash"], frame_id |-> -1]
  ELSE IF pager.freelist_.frames # <<>>
    THEN [pager |-> [pager EXCEPT !.freelist_.frames = Tail(@)],
          frame_id |-> Head(pager.freelist_.frames)]
  ELSE IF pager.replacer_.size > 0
    THEN [pager |-> [pager EXCEPT
                       !.replacer_ = Victim(pager.replacer_).obj,
                       !.page_table_[Victim(pager.replacer_).frame_id] = -1],
          frame_id |-> Victim(pager.replacer_).frame_id]
  ELSE [pager |-> pager, frame_id |-> -1]

\* get_page of src/lru.c: [pager, ok]; ok: the page has a frame and what
\* is returned is pager->pages of that frame (FALSE: no frame, NULL).
lru_get_page_miss(r, page_num) ==
  IF r.pager.st # "ok" \/ r.frame_id = -1 THEN [pager |-> r.pager, ok |-> FALSE]
  ELSE [pager |-> [r.pager EXCEPT !.page_table_[page_num] = r.frame_id,
                                  !.page_id_table_[r.frame_id] = page_num],
        ok |-> TRUE]

lru_get_page(pager, page_num) ==
  IF pager.page_table_[page_num] # -1
    THEN [pager |-> pager, ok |-> TRUE]
  ELSE IF ~pager.freelist_.valid
    THEN [pager |-> [pager EXCEPT !.st = "crash"], ok |-> FALSE]
  ELSE IF is_all_pinned(pager) THEN [pager |-> pager, ok |-> FALSE]
  ELSE lru_get_page_miss(find_replace(pager), page_num)

\* get_unused_page_num of src/lru.c: [pager, page_id].  uninitialised is
\* what the local frame_id holds when no frame has page_id_table_ -1 and
\* the loop assigns nothing.
FirstFree(pager) ==
  CHOOSE i \in Frames :
    /\ pager.page_id_table_[i] = -1
    /\ \A j \in Frames : pager.page_id_table_[j] = -1 => i <= j

lru_get_unused_page_num_new(pager, frame_id) ==
  IF frame_id \notin Frames
    THEN [pager |-> [pager EXCEPT !.st = "crash"], page_id |-> pager.num_pages]
  ELSE [pager |-> [pager EXCEPT !.page_id_table_[frame_id] = pager.num_pages,
                                !.page_table_[pager.num_pages] = frame_id],
        page_id |-> pager.num_pages]

lru_get_unused_page_num_victim(r) ==
  IF r.pager.st # "ok" \/ r.frame_id = -1 THEN [pager |-> r.pager, page_id |-> -1]
  ELSE [pager |-> r.pager, page_id |-> r.pager.page_id_table_[r.frame_id]]

lru_get_unused_page_num(pager, uninitialised) ==
  IF ~pager.freelist_.valid
    THEN [pager |-> [pager EXCEPT !.st = "crash"], page_id |-> -1]
  ELSE IF pager.freelist_.frames # <<>>
    THEN [pager |-> [pager EXCEPT !.freelist_.frames = Tail(@)],
          page_id |-> pager.page_id_table_[Head(pager.freelist_.frames)]]
  ELSE IF pager.replacer_.size > 0
    THEN lru_get_unused_page_num_victim(find_replace(pager))
  ELSE lru_get_unused_page_num_new(
         pager,
         IF \E i \in Frames : pager.page_id_table_[i] = -1
           THEN FirstFree(pager) ELSE uninitialised)

(***************************************************************************)
(* The command loop, src/myjql.c:1894-1953.  One action per command.       *)
(***************************************************************************)
NoCmd == [op |-> "none", key |-> 0, end_of_table |-> FALSE]

\* The rows a command has to leave: insert appends, delete removes every
\* row of the key.
RECURSIVE Without(_, _)
Without(rows, c) ==
  IF rows = <<>> THEN <<>>
  ELSE IF Head(rows)[2] = c THEN Without(Tail(rows), c)
  ELSE <<Head(rows)>> \o Without(Tail(rows), c)

\* The global statement when the program starts: static storage is zero.
ZeroStatement ==
  [type |-> "STATEMENT_INSERT", row |-> [a |-> 0, b |-> <<0, 0, 0>>], flag |-> 0]

Init ==
  LET m == db_open(<<>>)
  IN /\ pages = m.pages
     /\ num_pages = m.num_pages
     /\ file = m.file
     /\ pc = "prompt"
     /\ out = <<>>
     /\ cmd = NoCmd
     /\ live = <<>>
     /\ nins = 0
     /\ ndel = 0
     /\ nopen = 0
     /\ statement = ZeroStatement
     /\ lru = NotStarted

Cur == Mem(pages, num_pages, file)

\* The process after a command that ran in m: back in the loop, or gone
\* through exit() (the atexit handler runs db_close), or stuck, or killed
\* by a signal (nothing is written).
Finish(m, after) ==
  /\ pc' = IF m.st = "ok" THEN after
           ELSE IF m.st = "fatal" THEN "exited"
           ELSE IF m.st = "hang" THEN "hung"
           ELSE "crashed"
  /\ pages' = IF m.st = "ok" THEN m.pages ELSE <<>>
  /\ num_pages' = IF m.st = "ok" THEN m.num_pages ELSE 0
  /\ file' = IF m.st = "fatal" THEN db_close(m) ELSE file

\* The values the unset end_of_table of a fresh Cursor can hold.
FlagValues == BOOLEAN

Insert(k, max_inserts) ==
  /\ pc = "prompt"
  /\ nins < max_inserts
  /\ LET row == [a |-> nins + 1, b |-> k]
     IN /\ Finish(b_tree_insert(Cur, row), "done")
        /\ live' = Append(live, Printed(row))
  /\ nins' = nins + 1
  /\ cmd' = [op |-> "insert", key |-> k[1], end_of_table |-> FALSE]
  /\ out' = <<>>
  /\ UNCHANGED <<ndel, nopen, statement, lru>>

Delete(k, end_of_table, max_deletes) ==
  /\ pc = "prompt"
  /\ ndel < max_deletes
  /\ Finish(b_tree_delete(Cur, k, end_of_table), "done")
  /\ live' = Without(live, k[1])
  /\ ndel' = ndel + 1
  /\ cmd' = [op |-> "delete", key |-> k[1], end_of_table |-> end_of_table]
  /\ out' = <<>>
  /\ UNCHANGED <<nins, nopen, statement, lru>>

SelectKey(k, end_of_table) ==
  /\ pc = "prompt"
  /\ LET r == b_tree_search(Cur, k, end_of_table)
     IN /\ Finish(r.m, "done")
        /\ out' = r.out
  /\ cmd' = [op |-> "select", key |-> k[1], end_of_table |-> end_of_table]
  /\ UNCHANGED <<live, nins, ndel, nopen, statement, lru>>

SelectAll ==
  /\ pc = "prompt"
  /\ LET r == b_tree_traverse(Cur)
     IN /\ Finish(r.m, "done")
        /\ out' = r.out
  /\ cmd' = [op |-> "select", key |-> 0, end_of_table |-> FALSE]
  /\ UNCHANGED <<live, nins, ndel, nopen, statement, lru>>

\* "Executed." and the next prompt.
Prompt ==
  /\ pc = "done"
  /\ pc' = "prompt"
  /\ out' = <<>>
  /\ cmd' = NoCmd
  /\ UNCHANGED <<pages, num_pages, file, live, nins, ndel, nopen, statement, lru>>

\* .exit, end of input or SIGINT: exit(), whose handler runs db_close.
Exit ==
  /\ pc = "prompt"
  /\ nopen < MaxReopens
  /\ pc' = "exited"
  /\ file' = db_close(Cur)
  /\ pages' = <<>>
  /\ num_pages' = 0
  /\ UNCHANGED <<out, cmd, live, nins, ndel, nopen, statement, lru>>

\* The program is started again on the same file.
Open ==
  /\ pc = "exited"
  /\ nopen < MaxReopens
  /\ LET m == db_open(file)
     IN /\ pages' = m.pages
        /\ num_pages' = m.num_pages
  /\ pc' = "prompt"
  /\ nopen' = nopen + 1
  /\ out' = <<>>
  /\ cmd' = NoCmd
  /\ statement' = ZeroStatement
  /\ UNCHANGED lru
  /\ UNCHANGED <<file, live, nins, ndel>>

\* One run of the program.
Next ==
  \/ \E k \in Keys : Insert(k, MaxInserts)
  \/ \E k \in Keys : \E end_of_table \in FlagValues :
        Delete(k, end_of_table, MaxDeletes)
  \/ \E k \in Keys : \E end_of_table \in FlagValues : SelectKey(k, end_of_table)
  \/ SelectAll
  \/ Prompt

Spec == Init /\ [][Next]_vars

\* Runs of the program on one file: the commands, .exit and a restart.
NextReopen ==
  \/ \E k \in Keys : Insert(k, MaxInsertsReopen)
  \/ \E k \in Keys : \E end_of_table \in FlagValues :
        Delete(k, end_of_table, MaxDeletesReopen)
  \/ \E k \in Keys : \E end_of_table \in FlagValues : SelectKey(k, end_of_table)
  \/ SelectAll
  \/ Prompt
  \/ Exit
  \/ Open

SpecReopen == Init /\ [][NextReopen]_vars

(***************************************************************************)
(* The shell on input lines, src/myjql.c:348-366 and 1786-1953.  A line is *)
(* the sequence of the character codes before its newline.                 *)
(***************************************************************************)
INPUT_BUFFER_SIZE == 31
COLUMN_B_SIZE == 11

\* read_input without the test of the character at index INPUT_BUFFER_SIZE.
read_input_any_length(chars) ==
  [result |-> "INPUT_SUCCESS", buffer |-> chars]

\* read_input: the line in the buffer, or INPUT_TOO_LONG when the character
\* at index INPUT_BUFFER_SIZE is not the newline.
read_input(chars) ==
  IF Len(chars) > INPUT_BUFFER_SIZE
    THEN [result |-> "INPUT_TOO_LONG", buffer |-> <<>>]
    ELSE [result |-> "INPUT_SUCCESS", buffer |-> chars]

\* The tokens strtok(..., " ") hands out one after the other: the maximal
\* runs of characters other than the space (32).
RECURSIVE TokensFrom(_, _, _)
TokensFrom(buffer, i, token) ==
  IF i > Len(buffer) THEN (IF token = <<>> THEN <<>> ELSE <<token>>)
  ELSE IF buffer[i] = 32
    THEN (IF token = <<>> THEN <<>> ELSE <<token>>) \o TokensFrom(buffer, i + 1, <<>>)
  ELSE TokensFrom(buffer, i + 1, Append(token, buffer[i]))

\* The n-th call of strtok on a buffer with these tokens; NULL is the empty
\* sequence.
strtok(tokens, n) == IF n <= Len(tokens) THEN tokens[n] ELSE <<>>

\* atoi: an optional sign (45 "-", 43 "+"), then the digits 48..57 up to the
\* first other character.
RECURSIVE DigitsFrom(_, _, _)
DigitsFrom(token, i, value) ==
  IF i > Len(token) \/ token[i] < 48 \/ token[i] > 57 THEN value
  ELSE DigitsFrom(token, i + 1, 10 * value + (token[i] - 48))

atoi(token) ==
  IF token # <<>> /\ token[1] = 45 THEN 0 - DigitsFrom(token, 2, 0)
  ELSE IF token # <<>> /\ token[1] = 43 THEN DigitsFrom(token, 2, 0)
  ELSE DigitsFrom(token, 1, 0)

strlen(token) == Len(token)

\* strncmp(buffer, keyword, 6) = 0
strncmp6(buffer, keyword) ==
  Len(buffer) >= 6 /\ SubSeq(buffer, 1, 6) = keyword

\* strcpy(statement.row.b, b): the bytes of b and one NUL go into the
\* 12-byte buffer; the bytes behind the NUL stay as they were.
ByteOf(dst, token, i) ==
  IF i <= Len(token) THEN token[i]
  ELSE IF i = Len(token) + 1 THEN 0
  ELSE ByteAt(dst, i)
strcpy(dst, token) ==
  Pack([i \in 1..LEAF_NODE_KEY_SIZE |-> ByteOf(dst, token, i)])

\* The keywords and dot-commands the code compares the buffer with.
KwInsert == <<105, 110, 115, 101, 114, 116>>
KwSelect == <<115, 101, 108, 101, 99, 116>>
KwDelete == <<100, 101, 108, 101, 116, 101>>
DotExit == <<46, 101, 120, 105, 116>>
DotConstants == <<46, 99, 111, 110, 115, 116, 97, 110, 116, 115>>

do_meta_command(buffer) ==
  IF buffer = DotExit THEN "exit"
  ELSE IF buffer = DotConstants THEN "META_COMMAND_SUCCESS"
  ELSE "META_COMMAND_UNRECOGNIZED_COMMAND"

\* The prepare functions give their result and the statement they leave.
\* prepare_insert on the tokens of the buffer: a and b are the second and
\* the third token.
prepare_insert_1(st, tokens) ==
  IF strtok(tokens, 2) = <<>> \/ strtok(tokens, 3) = <<>>
    THEN [result |-> "PREPARE_SYNTAX_ERROR", statement |-> st]
  ELSE IF atoi(strtok(tokens, 2)) < 0
    THEN [result |-> "PREPARE_NEGATIVE_VALUE", statement |-> st]
  ELSE IF strlen(strtok(tokens, 3)) > COLUMN_B_SIZE
    THEN [result |-> "PREPARE_STRING_TOO_LONG", statement |-> st]
  ELSE [result |-> "PREPARE_SUCCESS",
        statement |-> [st EXCEPT !.row = [a |-> atoi(strtok(tokens, 2)),
                                          b |-> strcpy(st.row.b, strtok(tokens, 3))]]]

prepare_insert(buffer, stmt) ==
  prepare_insert_1([stmt EXCEPT !.type = "STATEMENT_INSERT"], TokensFrom(buffer, 1, <<>>))

\* prepare_condition on the tokens of the buffer: b and c are the second
\* and the third token.
prepare_condition_1(st, tokens) ==
  IF strtok(tokens, 2) = <<>> THEN [result |-> "PREPARE_SUCCESS", statement |-> st]
  ELSE IF strtok(tokens, 3) # <<>>
    THEN [result |-> "PREPARE_SYNTAX_ERROR", statement |-> st]
  ELSE IF strlen(strtok(tokens, 2)) > COLUMN_B_SIZE
    THEN [result |-> "PREPARE_STRING_TOO_LONG", statement |-> st]
  ELSE [result |-> "PREPARE_SUCCESS",
        statement |-> [st EXCEPT !.row.b = strcpy(st.row.b, strtok(tokens, 2)),
                                 !.flag = 2]]

prepare_condition(buffer, stmt) ==
  prepare_condition_1([stmt EXCEPT !.flag = 0], TokensFrom(buffer, 1, <<>>))

prepare_select(buffer, stmt) ==
  prepare_condition(buffer, [stmt EXCEPT !.type = "STATEMENT_SELECT"])

\* prepare_delete on the result of prepare_condition: a delete needs a key.
prepare_delete_1(result) ==
  IF result.result = "PREPARE_SUCCESS" /\ result.statement.flag = 0
    THEN [result EXCEPT !.result = "PREPARE_SYNTAX_ERROR"]
    ELSE result

prepare_delete(buffer, stmt) ==
  prepare_delete_1(prepare_condition(buffer, [stmt EXCEPT !.type = "STATEMENT_DELETE"]))

prepare_statement(buffer, stmt) ==
  IF strlen(buffer) = 0 THEN [result |-> "PREPARE_EMPTY_STATEMENT", statement |-> stmt]
  ELSE IF strncmp6(buffer, KwInsert) THEN prepare_insert(buffer, stmt)
  ELSE IF strncmp6(buffer, KwSelect) THEN prepare_select(buffer, stmt)
  ELSE IF strncmp6(buffer, KwDelete) THEN prepare_delete(buffer, stmt)
  ELSE [result |-> "PREPARE_UNRECOGNIZED_STATEMENT", statement |-> stmt]

\* The body of main's loop up to execute_statement: what the line comes to
\* ("exit", a result after which the loop continues, or PREPARE_SUCCESS) and
\* the global statement as the line leaves it.  prepare_* write type, flag
\* and row.a whole, and of row.b the string and its NUL only.
ReadLine(chars) ==
  LET input == read_input(chars)
  IN
  IF input.result = "INPUT_TOO_LONG"
    THEN [result |-> "INPUT_TOO_LONG", statement |-> statement]
  ELSE IF input.buffer # <<>> /\ input.buffer[1] = 46
    THEN [result |-> do_meta_command(input.buffer), statement |-> statement]
  ELSE prepare_statement(input.buffer, statement)

\* execute_statement on the table of the state.  end_of_table is the unset
\* flag of the Cursor of b_tree_search and b_tree_delete.
execute_statement(stmt, max_inserts, max_deletes) ==
  IF stmt.type = "STATEMENT_INSERT" THEN
    /\ nins < max_inserts
    /\ Finish(b_tree_insert(Cur, stmt.row), "done")
    /\ live' = Append(live, Printed(stmt.row))
    /\ nins' = nins + 1
    /\ cmd' = [op |-> "insert", key |-> StringOf(stmt.row.b), end_of_table |-> FALSE]
    /\ out' = <<>>
    /\ UNCHANGED <<ndel, nopen>>
  ELSE IF stmt.type = "STATEMENT_SELECT" THEN
    /\ \E end_of_table \in IF stmt.flag = 0 THEN {FALSE} ELSE FlagValues :
         /\ LET r == IF stmt.flag = 0 THEN b_tree_traverse(Cur)
                     ELSE b_tree_search(Cur, stmt.row.b, end_of_table)
            IN /\ Finish(r.m, "done")
               /\ out' = r.out
         /\ cmd' = [op |-> "select",
                    key |-> IF stmt.flag = 0 THEN 0 ELSE StringOf(stmt.row.b),
                    end_of_table |-> end_of_table]
    /\ UNCHANGED <<live, nins, ndel, nopen>>
  ELSE
    /\ ndel < max_deletes
    /\ \E end_of_table \in FlagValues :
         /\ Finish(b_tree_delete(Cur, stmt.row.b, end_of_table), "done")
         /\ cmd' = [op |-> "delete", key |-> StringOf(stmt.row.b),
                    end_of_table |-> end_of_table]
    /\ live' = Without(live, StringOf(stmt.row.b))
    /\ ndel' = ndel + 1
    /\ out' = <<>>
    /\ UNCHANGED <<nins, nopen>>

\* The rest of the loop body for a line that ReadLine has brought to `line`.
InputLine_1(line, max_inserts, max_deletes) ==
  /\ pc = "prompt"
  /\ IF line.result = "exit" THEN
       /\ pc' = "exited"
       /\ file' = db_close(Cur)
       /\ pages' = <<>>
       /\ num_pages' = 0
       /\ cmd' = [op |-> "exit", key |-> 0, end_of_table |-> FALSE]
       /\ UNCHANGED <<out, live, nins, ndel, nopen, statement, lru>>
     ELSE IF line.result = "PREPARE_SUCCESS" THEN
       /\ execute_statement(line.statement, max_inserts, max_deletes)
       /\ statement' = line.statement
       /\ UNCHANGED lru
     ELSE
       \* a message, or nothing, and `continue`
       /\ pc' = "prompt"
       /\ cmd' = [op |-> line.result, key |-> 0, end_of_table |-> FALSE]
       /\ out' = <<>>
       /\ statement' = line.statement
       /\ UNCHANGED lru
       /\ UNCHANGED <<pages, num_pages, file, live, nins, ndel, nopen>>

\* One line at the prompt.
InputLine(chars, max_inserts, max_deletes) ==
  InputLine_1(ReadLine(chars), max_inserts, max_deletes)

\* The lines of the model: accepted statements on the keys "a" and "b",
\* an insert of the longer key "abc", the dot-commands, and lines of
\* every kind the shell turns away.
Words2(w1, w2) == w1 \o <<32>> \o w2
Words3(w1, w2, w3) == w1 \o <<32>> \o w2 \o <<32>> \o w3
Words4(w1, w2, w3, w4) == Words3(w1, w2, w3) \o <<32>> \o w4
Repeat(c, n) == [i \in 1..n |-> c]

ShellKeyCodes == {97, 98}

AcceptedLines ==
  {Words3(KwInsert, <<49>>, <<c>>) : c \in ShellKeyCodes}
    \cup {Words2(KwSelect, <<97>>)}
    \cup {Words2(KwDelete, <<c>>) : c \in ShellKeyCodes}
    \cup {KwSelect, Words4(KwInsert, <<50>>, <<97>>, <<98>>)}
    \cup {Words3(KwInsert, <<49>>, <<97, 98, 99>>)}

QuietLines == {<<>>, DotConstants, DotExit}

SyntaxErrorLines ==
  {Words2(KwInsert, <<49>>), Words3(KwSelect, <<97>>, <<98>>),
   Words3(KwDelete, <<97>>, <<98>>)}
NegativeLines == {Words3(KwInsert, <<45, 49>>, <<97>>)}
TooLongStringLines ==
  {Words3(KwInsert, <<49>>, Repeat(97, COLUMN_B_SIZE + 1)),
   Words2(KwDelete, Repeat(97, COLUMN_B_SIZE + 1))}
DeleteWithoutKeyLines == {KwDelete}
OverLongLines ==
  {Words3(KwInsert, <<49>>, <<97>>) \o Repeat(32, INPUT_BUFFER_SIZE - 9)}
UnrecognizedLines ==
  {<<117, 112, 100, 97, 116, 101, 32, 49, 32, 97>>, <<46, 104, 101, 108, 112>>,
   DotExit \o <<32>>}

RejectedLines ==
  SyntaxErrorLines \cup NegativeLines \cup TooLongStringLines
    \cup DeleteWithoutKeyLines \cup OverLongLines \cup UnrecognizedLines

Lines == AcceptedLines \cup QuietLines \cup RejectedLines

MaxInsertsShell == 3
MaxDeletesShell == 1

NextShell ==
  \/ \E chars \in Lines : InputLine(chars, MaxInsertsShell, MaxDeletesShell)
  \/ Prompt

SpecShell == Init /\ [][NextShell]_vars

\* Longer runs of inserts with one delete among them: the trees of three
\* levels in which an internal node below the root overflows, borrows or
\* merges.
MaxInsertsDeep == 7
MaxDeletesDeep == 1

NextDeep ==
  \/ \E k \in Keys : Insert(k, MaxInsertsDeep)
  \/ \E k \in Keys : \E end_of_table \in FlagValues :
        Delete(k, end_of_table, MaxDeletesDeep)
  \/ Prompt

SpecDeep == Init /\ [][NextDeep]_vars

\* Runs of inserts alone, long enough for a tree of four levels: the key an
\* internal node lifts makes the root above it overflow.
MaxInsertsGrow == 9

NextGrow ==
  \/ \E k \in Keys : Insert(k, MaxInsertsGrow)
  \/ Prompt

SpecGrow == Init /\ [][NextGrow]_vars

(***************************************************************************)
(* The tree as the file and the cache hold it, read without the code's     *)
(* search: page images, the nodes under the root, the leaves from left to  *)
(* right and the rows in them.  m is a table (pages, num_pages, file).     *)
(***************************************************************************)
\* The image of page n: the cached copy, else the copy in the file.
PageImage(m, n) ==
  IF n \in DOMAIN m.pages THEN m.pages[n] ELSE read_page(m.file, n)

IsLeaf(m, n) == PageImage(m, n).type = NODE_LEAF

\* The child page numbers of internal node n, left to right, the right
\* child last.
ChildrenOf(m, n) ==
  LET p == PageImage(m, n) IN
  IF p.num < 0 THEN <<p.next>>
  ELSE [i \in 1..(p.num + 1) |-> internal_node_child(p, i - 1)]

RECURSIVE Flatten(_)
Flatten(seqs) ==
  IF seqs = <<>> THEN <<>> ELSE Head(seqs) \o Flatten(Tail(seqs))

\* The leaves under node n from left to right.  depth bounds the descent:
\* below it a malformed tree (a cycle of child pointers) is cut off.
TreeDepth == 4

RECURSIVE LeavesUnder(_, _, _)
LeavesUnder(m, n, depth) ==
  IF IsLeaf(m, n) THEN <<n>>
  ELSE IF depth = 0 THEN <<>>
  ELSE Flatten([i \in DOMAIN ChildrenOf(m, n) |->
                  LeavesUnder(m, ChildrenOf(m, n)[i], depth - 1)])

\* Every node under n, n included, parents before children.
RECURSIVE NodesUnder(_, _, _)
NodesUnder(m, n, depth) ==
  IF IsLeaf(m, n) \/ depth = 0 THEN <<n>>
  ELSE <<n>> \o Flatten([i \in DOMAIN ChildrenOf(m, n) |->
                           NodesUnder(m, ChildrenOf(m, n)[i], depth - 1)])

LeavesOf(m) == LeavesUnder(m, 0, TreeDepth)
NodesOf(m) == NodesUnder(m, 0, TreeDepth)

\* The rows of leaf n, cell 0 first, as print_row shows them.
RowsOfLeaf(m, n) ==
  LET p == PageImage(m, n) IN
  [i \in 1..(IF p.num < 0 THEN 0 ELSE p.num) |->
     Printed(deserialize_row(leaf_node_cell(p, i - 1)))]

\* seq without the later occurrences of an element.
RECURSIVE Distinct(_)
Distinct(seq) ==
  IF seq = <<>> THEN <<>>
  ELSE IF \E i \in 1..(Len(seq) - 1) : seq[i] = seq[Len(seq)]
    THEN Distinct(SubSeq(seq, 1, Len(seq) - 1))
  ELSE Append(Distinct(SubSeq(seq, 1, Len(seq) - 1)), seq[Len(seq)])

RowsOfLeaves(m, leaves) ==
  Flatten([i \in DOMAIN leaves |-> RowsOfLeaf(m, leaves[i])])

\* The rows of the tree, leaf by leaf from left to right; a leaf that two
\* child pointers lead to holds its rows once.
RowsOf(m) == RowsOfLeaves(m, Distinct(LeavesOf(m)))

\* The tree of the current state.
TreeLeaves == LeavesOf(Cur)
TreeNodes == NodesOf(Cur)
TreeRows == RowsOf(Cur)

\* Sequences as multisets.
Count(seq, x) == Cardinality({i \in DOMAIN seq : seq[i] = x})
Range(seq) == {seq[i] : i \in DOMAIN seq}
SameMultiset(s1, s2) ==
  \A x \in Range(s1) \cup Range(s2) : Count(s1, x) = Count(s2, x)

\* The rows of seq with key code c, in the order of seq.
RECURSIVE WithKey(_, _)
WithKey(rows, c) ==
  IF rows = <<>> THEN <<>>
  ELSE IF Head(rows)[2] = c THEN <<Head(rows)>> \o WithKey(Tail(rows), c)
  ELSE WithKey(Tail(rows), c)

NonDecreasing(rows) ==
  \A i \in DOMAIN rows : \A j \in DOMAIN rows : i < j => rows[i][2] <= rows[j][2]

\* The command that has just returned to the loop.
Completed(op) == pc = "done" /\ cmd.op = op
SelectedKey == Completed("select") /\ cmd.key # 0
SelectedAll == Completed("select") /\ cmd.key = 0
Updated == Completed("insert") \/ Completed("delete")

(***************************************************************************)
(* Claims.                                                                 *)
(***************************************************************************)
\* C1: the rows printed by `select K` are, as a multiset, the rows inserted
\* with key K and not deleted since.
C1_SelectKeyPrintsLiveRows ==
  SelectedKey => SameMultiset(out, WithKey(live, cmd.key))

\* C2: `select` without argument prints every live row exactly once and no
\* other row, whatever the keys.
C2_SelectPrintsEveryLiveRow ==
  SelectedAll => SameMultiset(out, live)

\* C3: the rows printed by `select` without argument have non-decreasing
\* keys.
C3_SelectIsSorted ==
  SelectedAll => NonDecreasing(out)

\* C4: after `delete K` has completed no leaf under the root holds a cell
\* with key K.
C4_DeleteRemovesEveryRowOfKey ==
  Completed("delete") => WithKey(TreeRows, cmd.key) = <<>>

\* C5: a completed `delete K` leaves the multiset of rows with another key
\* under the root as it was before the command.
C5_DeleteKeepsOtherRows ==
  [][(pc = "prompt" /\ pc' = "done" /\ cmd'.op = "delete")
       => SameMultiset(Without(RowsOf(Cur), cmd'.key),
                       Without(RowsOf(Mem(pages', num_pages', file')),
                               cmd'.key))]_vars

\* C6: the outputs of `select` and of `select K`, for every key K, are the
\* same before .exit and after the restart on the file the close wrote.
C6_ReopenGivesSameOutput ==
  [][(pc = "prompt" /\ pc' = "exited")
       => /\ b_tree_traverse(db_open(file')).out = b_tree_traverse(Cur).out
          /\ \A k \in Keys : \A before, after \in FlagValues :
                b_tree_search(db_open(file'), k, after).out
                  = b_tree_search(Cur, k, before).out]_vars

\* C7: `select K` prints the rows in the order of their insertion (the
\* model numbers the rows by insertion: a is the number of the insert).
C7_SelectKeyInInsertionOrder ==
  SelectedKey =>
    \A i \in DOMAIN out : \A j \in DOMAIN out : i < j => out[i][1] < out[j][1]

\* C8: after a completed insert or delete every non-root leaf under the
\* root holds at least LEAF_NODE_MAX_CELLS / 2 cells, every non-root
\* internal node at least one key, and no node more than its maximum.
FillOk(n) ==
  LET p == PageImage(Cur, n) IN
  IF p.type = NODE_LEAF
    THEN (n = 0 \/ p.num >= LEAF_NODE_MAX_CELLS \div 2) /\ p.num <= LEAF_NODE_MAX_CELLS
    ELSE (n = 0 \/ p.num >= 1) /\ p.num <= INTERNAL_NODE_MAX_CELLS

C8_FillDiscipline ==
  Updated => \A i \in DOMAIN TreeNodes : FillOk(TreeNodes[i])

\* The leaves met by following next_leaf from leaf n; a chain longer than
\* the page slots is on a cycle and is cut there.
RECURSIVE LeafChain(_, _)
LeafChain(n, fuel) ==
  IF fuel = 0 \/ PageImage(Cur, n).next = 0 THEN <<n>>
  ELSE <<n>> \o LeafChain(PageImage(Cur, n).next, fuel - 1)

ChainFromLeftmost ==
  IF TreeLeaves = <<>> THEN <<>> ELSE LeafChain(TreeLeaves[1], TABLE_MAX_PAGES)

\* max_key(l1) <= min_key(l2) for leaves that hold cells.
LeafBefore(l1, l2) ==
  LET p1 == PageImage(Cur, l1)
      p2 == PageImage(Cur, l2)
  IN (p1.num > 0 /\ p2.num > 0)
       => strcmp(leaf_node_key(p1, p1.num - 1), leaf_node_key(p2, 0)) <= 0

\* C9: after a completed insert or delete the next_leaf chain from the
\* leftmost leaf is the sequence of the leaves under the root from left to
\* right, its keys do not decrease from a leaf to its successor, and it
\* ends with next_leaf = 0.
C9_LeafChainIsTreeOrder ==
  Updated =>
    /\ ChainFromLeftmost = TreeLeaves
    /\ \A i \in DOMAIN ChainFromLeftmost : IsLeaf(Cur, ChainFromLeftmost[i])
    /\ \A i \in 1..(Len(ChainFromLeftmost) - 1) :
         LeafBefore(ChainFromLeftmost[i], ChainFromLeftmost[i + 1])
    /\ PageImage(Cur, ChainFromLeftmost[Len(ChainFromLeftmost)]).next = 0

\* C10: after a completed insert or delete the parent field of every
\* non-root node under the root is the page number of the internal node
\* that holds it as a child.
C10_ParentFields ==
  Updated =>
    \A i \in DOMAIN TreeNodes :
      LET n == TreeNodes[i] IN
      ~IsLeaf(Cur, n) =>
        \A j \in DOMAIN ChildrenOf(Cur, n) :
          PageImage(Cur, ChildrenOf(Cur, n)[j]).parent = n

\* The key codes of the rows in the leaves under node n.
KeysUnder(n) ==
  LET rows == RowsOfLeaves(Cur, LeavesUnder(Cur, n, TreeDepth))
  IN {rows[i][2] : i \in DOMAIN rows}

\* Internal node n: its keys do not decrease, and key i lies between the
\* keys under child i and the keys under child i + 1.
SeparatorsOk(n) ==
  LET p == PageImage(Cur, n) IN
  /\ \A i \in 0..(p.num - 2) :
       strcmp(internal_node_key(p, i), internal_node_key(p, i + 1)) <= 0
  /\ \A i \in 0..(p.num - 1) :
       /\ \A c \in KeysUnder(internal_node_child(p, i)) :
            c <= internal_node_key(p, i)[1]
       /\ \A c \in KeysUnder(internal_node_child(p, i + 1)) :
            internal_node_key(p, i)[1] <= c

\* C11: after a completed insert or delete, in every internal node under
\* the root the keys are non-decreasing, the largest key under child i is
\* at most key i and key i is at most the smallest key under child i + 1.
C11_SeparatorOrder ==
  Updated =>
    \A i \in DOMAIN TreeNodes :
      ~IsLeaf(Cur, TreeNodes[i]) => SeparatorsOk(TreeNodes[i])

\* C12: after every completed command page 0 has is_root set, every other
\* node under the root has is_root clear, and a tree of one node is a leaf
\* at page 0.
C12_RootIsPageZero ==
  pc = "done" =>
    /\ PageImage(Cur, 0).root = 1
    /\ \A i \in DOMAIN TreeNodes :
         TreeNodes[i] # 0 => PageImage(Cur, TreeNodes[i]).root = 0
    /\ Len(TreeNodes) = 1 => (TreeNodes = <<0>> /\ IsLeaf(Cur, 0))

\* A delete has brought a tree that had split back to the single root leaf.
C12_CollapsedToRootLeaf ==
  /\ Completed("delete")
  /\ nins >= 3
  /\ TreeNodes = <<0>>
  /\ PageImage(Cur, 0).num > 0

\* C13: when a completed delete has left no live row, the tree is page 0
\* alone, a root leaf with zero cells and next_leaf 0, and `select` prints
\* no row.
C13_EmptyTreeIsRootLeaf ==
  (Completed("delete") /\ live = <<>> /\ nins > 0) =>
    /\ TreeNodes = <<0>>
    /\ IsLeaf(Cur, 0)
    /\ PageImage(Cur, 0).root = 1
    /\ PageImage(Cur, 0).num = 0
    /\ PageImage(Cur, 0).next = 0
    /\ b_tree_traverse(Cur).out = <<>>

\* The image of every page slot of table m.
AllPages(m) == [n \in 0..(TABLE_MAX_PAGES - 1) |-> PageImage(m, n)]

\* C14: `delete K` issued when no leaf under the root holds a row with key K
\* (the live rows are the rows the tree holds) returns to the loop and
\* changes no page and not num_pages.
C14_DeleteAbsentKeyIsNoOp ==
  [][(pc = "prompt" /\ cmd'.op = "delete" /\ WithKey(RowsOf(Cur), cmd'.key) = <<>>)
       => /\ pc' = "done"
          /\ num_pages' = num_pages
          /\ AllPages(Mem(pages', num_pages', file')) = AllPages(Cur)]_vars

\* The first delete of a run has completed on a tree of three rows or more
\* without a match: every inserted row is still live.
C14_DeletedAbsentKey ==
  /\ Completed("delete")
  /\ ~cmd.end_of_table
  /\ ndel = 1
  /\ nins >= 3
  /\ Len(live) = nins
  /\ Len(TreeNodes) > 1

\* C15: when a command ends in a fatal error the file after the process
\* has gone is the file as the last close left it: file is written by
\* db_close only, so it is the file of the state before the command.
C15_FatalLeavesFile ==
  [][(pc = "prompt" /\ pc' = "exited" /\ cmd'.op # "none") => file' = file]_vars

\* The results after which main prints a message and reads the next line.
Rejections ==
  {"INPUT_TOO_LONG", "META_COMMAND_UNRECOGNIZED_COMMAND", "PREPARE_NEGATIVE_VALUE",
   "PREPARE_STRING_TOO_LONG", "PREPARE_SYNTAX_ERROR", "PREPARE_UNRECOGNIZED_STATEMENT"}

\* C16: a line with a syntax error, a negative a, a b of more than 11
\* bytes, a delete without key, more than 31 characters, an unrecognized
\* keyword or an unrecognized dot-command is turned away with one of the
\* messages, changes no page and not num_pages, and leaves the shell at
\* the prompt.
C16_RejectedLineRunsNothing ==
  [][\A chars \in RejectedLines :
       InputLine(chars, MaxInsertsShell, MaxDeletesShell)
         => /\ cmd'.op \in Rejections
            /\ pc' = "prompt"
            /\ num_pages' = num_pages
            /\ file' = file
            /\ AllPages(Mem(pages', num_pages', file')) = AllPages(Cur)]_vars

\* A line has been turned away at the prompt of a tree that has split and
\* lost rows to a delete.
C16_LineRejected ==
  /\ pc = "prompt"
  /\ cmd.op \in Rejections
  /\ Len(TreeNodes) > 1
  /\ ndel > 0

\* The cell positions <<leaf, cell>> along the next_leaf chain from the
\* leftmost leaf, and the key code at a position.
CellsOfLeaf(n) == [i \in 1..Max(PageImage(Cur, n).num, 0) |-> <<n, i - 1>>]
ChainCells == Flatten([i \in DOMAIN ChainFromLeftmost |-> CellsOfLeaf(ChainFromLeftmost[i])])
KeyAt(pos) == leaf_node_key(PageImage(Cur, pos[1]), pos[2])[1]

\* The position table_find gives for key k on the table of the state.
Found(k) == <<table_find(Cur, k).page_num, table_find(Cur, k).cell_num>>

\* table_find(k) is right: with k in the chain it gives the first cell of
\* the chain with key k; without, a position of a leaf of the chain with
\* every cell before it below k and every cell from it on above k.
FindsFirst(k) ==
  IF \E i \in DOMAIN ChainCells : KeyAt(ChainCells[i]) = k[1]
    THEN \E i \in DOMAIN ChainCells :
           /\ ChainCells[i] = Found(k)
           /\ KeyAt(ChainCells[i]) = k[1]
           /\ \A j \in 1..(i - 1) : KeyAt(ChainCells[j]) # k[1]
    ELSE \E i \in DOMAIN ChainFromLeftmost :
           /\ ChainFromLeftmost[i] = Found(k)[1]
           /\ Found(k)[2] <= PageImage(Cur, Found(k)[1]).num
           /\ \A j \in DOMAIN ChainCells :
                LET before == \/ \E h \in 1..(i - 1) : ChainFromLeftmost[h] = ChainCells[j][1]
                              \/ ChainCells[j][1] = Found(k)[1] /\ ChainCells[j][2] < Found(k)[2]
                IN IF before THEN KeyAt(ChainCells[j]) < k[1]
                   ELSE KeyAt(ChainCells[j]) > k[1]

\* C17: after a completed insert or delete table_find(K) gives, for every
\* key K in the tree, the first cell with key K in leaf-chain order, and for
\* an absent K the position where K keeps the keys sorted.
C17_TableFindFirst ==
  Updated => \A k \in Keys : FindsFirst(k)

\* Leaf new directly follows leaf old among the children of one internal
\* node of table m, with the largest key of old as the key between them.
PlacedAfter(m, old, new) ==
  \E i \in DOMAIN NodesOf(m) :
    LET n == NodesOf(m)[i]
        p == PageImage(m, n)
    IN /\ ~IsLeaf(m, n)
       /\ \E j \in 0..(p.num - 1) :
            /\ internal_node_child(p, j) = old
            /\ internal_node_child(p, j + 1) = new
            /\ internal_node_key(p, j)
                 = leaf_node_key(PageImage(m, old), PageImage(m, old).num - 1)

\* The table after the step.
Post == Mem(pages', num_pages', file')

\* An insert into a tree whose root is an internal node has split one leaf
\* and no internal node: the tree has one node more.
LeafSplitStep ==
  /\ pc = "prompt" /\ pc' = "done" /\ cmd'.op = "insert"
  /\ ~IsLeaf(Cur, 0)
  /\ Len(NodesOf(Post)) = Len(NodesOf(Cur)) + 1

\* C18: when an insert has split a leaf that is not the root, the new leaf
\* (the page the split leaf's next_leaf names) is the child directly after
\* the split leaf in their parent, with the lifted key between them, and the
\* leaves under the root are from left to right the leaves of the chain.
C18_NewLeafAfterSplitLeaf ==
  [][LeafSplitStep =>
       /\ \A i \in DOMAIN LeavesOf(Post) :
            LET old == LeavesOf(Post)[i]
                new == PageImage(Post, old).next
            IN (new # 0 /\ \A j \in DOMAIN NodesOf(Cur) : NodesOf(Cur)[j] # new)
                 => PlacedAfter(Post, old, new)
       /\ \A i \in 1..(Len(LeavesOf(Post)) - 1) :
            PageImage(Post, LeavesOf(Post)[i]).next = LeavesOf(Post)[i + 1]]_vars

\* The root of the state is an internal node over leaves only, its leaves
\* name it as their parent and are the chain in order, and its keys
\* separate them.
RootOverLeaves ==
  /\ ~IsLeaf(Cur, 0)
  /\ PageImage(Cur, 0).num >= 1
  /\ \A i \in DOMAIN ChildrenOf(Cur, 0) :
       /\ IsLeaf(Cur, ChildrenOf(Cur, 0)[i])
       /\ PageImage(Cur, ChildrenOf(Cur, 0)[i]).parent = 0
  /\ TreeLeaves = Distinct(TreeLeaves)
  /\ ChainFromLeftmost = TreeLeaves
  /\ SeparatorsOk(0)

\* The first round of the loop of b_tree_delete for key k: table_find, then
\* leaf_node_delete at the position found.
FirstRound(k) ==
  leaf_node_delete(table_find(Cur, k).m, table_find(Cur, k).page_num,
                   table_find(Cur, k).cell_num, k)

\* The index (from 1) of leaf n among the children of the root.
ChildIndex(n) == CHOOSE i \in DOMAIN ChildrenOf(Cur, 0) : ChildrenOf(Cur, 0)[i] = n

\* The sibling the leaf at index i of the root is paired with, and the left
\* and the right leaf of the pair.
SiblingIndex(i) == IF i = Len(ChildrenOf(Cur, 0)) THEN i - 1 ELSE i + 1
LeftOfPair(i) == ChildrenOf(Cur, 0)[IF i = Len(ChildrenOf(Cur, 0)) THEN i - 1 ELSE i]
RightOfPair(i) == ChildrenOf(Cur, 0)[IF i = Len(ChildrenOf(Cur, 0)) THEN i ELSE i + 1]

\* seq without its i-th element.
Remove(seq, i) == SubSeq(seq, 1, i - 1) \o SubSeq(seq, i + 1, Len(seq))

\* Deleting the row table_find(k) names empties its leaf, and the sibling of
\* that leaf has no cell to spare: the leaf and its sibling merge.
MergesOnDelete(k) ==
  LET n == Found(k)[1]
      p == PageImage(Cur, n)
  IN /\ RootOverLeaves
     /\ \E i \in DOMAIN TreeLeaves : TreeLeaves[i] = n
     /\ p.num = 1 /\ Found(k)[2] = 0 /\ leaf_node_key(p, 0) = k
     /\ PageImage(Cur, ChildrenOf(Cur, 0)[SiblingIndex(ChildIndex(n))]).num
          < 1 + LEAF_NODE_MIN_CELLS

\* The merge of that round did what a merge has to do.
MergedRight(k) ==
  LET i == ChildIndex(Found(k)[1])
      left == LeftOfPair(i)
      right == RightOfPair(i)
      sibling == ChildrenOf(Cur, 0)[SiblingIndex(i)]
      after == FirstRound(k).m
  IN /\ after.st = "ok"
     /\ IF PageImage(Cur, 0).num = 1
          THEN \* the root had one key: the merged leaf becomes the root
               /\ IsLeaf(after, 0)
               /\ RowsOfLeaf(after, 0) = RowsOfLeaf(Cur, sibling)
               /\ PageImage(after, 0).next = 0
          ELSE /\ RowsOfLeaf(after, left) = RowsOfLeaf(Cur, sibling)
               /\ PageImage(after, left).next = PageImage(Cur, right).next
               /\ PageImage(after, 0).num = PageImage(Cur, 0).num - 1
               /\ ChildrenOf(after, 0)
                    = Remove(ChildrenOf(Cur, 0), IF i = Len(ChildrenOf(Cur, 0)) THEN i ELSE i + 1)

\* C19: at every prompt, for every key whose first deletion makes two
\* leaves under the root merge, the merge moves the cells of the right leaf
\* into the left one, gives the left leaf the right leaf's next_leaf, and
\* takes one key and the pointer to the right leaf out of the root, the
\* left leaf staying a child, wherever the pair stands in the root.
C19_LeafMerge ==
  pc = "prompt" => \A k \in Keys : MergesOnDelete(k) => MergedRight(k)

\* Deleting the row table_find(k) names empties its leaf, and the sibling of
\* that leaf has a cell to spare: the sibling hands one cell over.
RedistributesOnDelete(k) ==
  LET n == Found(k)[1]
      p == PageImage(Cur, n)
  IN /\ RootOverLeaves
     /\ \E i \in DOMAIN TreeLeaves : TreeLeaves[i] = n
     /\ p.num = 1 /\ Found(k)[2] = 0 /\ leaf_node_key(p, 0) = k
     /\ PageImage(Cur, ChildrenOf(Cur, 0)[SiblingIndex(ChildIndex(n))]).num
          >= 1 + LEAF_NODE_MIN_CELLS

\* The leaf has one cell more than the deletion left it, the sibling one
\* less, both are sorted and together they hold the rows they held.
MovedOneCell(k) ==
  LET n == Found(k)[1]
      sibling == ChildrenOf(Cur, 0)[SiblingIndex(ChildIndex(n))]
      after == FirstRound(k).m
  IN /\ after.st = "ok"
     /\ PageImage(after, n).num = 1
     /\ PageImage(after, sibling).num = PageImage(Cur, sibling).num - 1
     /\ NonDecreasing(RowsOfLeaf(after, n))
     /\ NonDecreasing(RowsOfLeaf(after, sibling))
     /\ SameMultiset(RowsOfLeaf(after, n) \o RowsOfLeaf(after, sibling),
                     RowsOfLeaf(Cur, sibling))

\* C20: at every prompt, for every key whose first deletion makes a leaf
\* under the root take a cell from its sibling (the right sibling, or the
\* left one for the rightmost leaf), exactly one cell moves: the leaf gains
\* one cell, the sibling loses one, both stay sorted and their rows together
\* are the rows they held.
C20_LeafRedistribute ==
  pc = "prompt" => \A k \in Keys : RedistributesOnDelete(k) => MovedOneCell(k)

\* The same for the leaves that have a right sibling.
C20_FromRightSibling ==
  pc = "prompt" =>
    \A k \in Keys :
      (RedistributesOnDelete(k) /\ ChildIndex(Found(k)[1]) < Len(ChildrenOf(Cur, 0)))
        => MovedOneCell(k)

\* The index of the key the root holds between the leaf at index i and the
\* sibling it is paired with.
PairKeyIndex(i) == IF i = Len(ChildrenOf(Cur, 0)) THEN i - 2 ELSE i - 1

\* The key the sibling of the leaf at index i begins with (right sibling) or
\* ends with (left sibling) once it has handed one cell over.
SiblingEdgeKey(i) ==
  LET sib == PageImage(Cur, ChildrenOf(Cur, 0)[SiblingIndex(i)])
  IN IF i = Len(ChildrenOf(Cur, 0)) THEN leaf_node_key(sib, sib.num - 2)
     ELSE leaf_node_key(sib, 1)

\* After the first round of the deletion of k the root has the keys it had,
\* but for the key of the pair, which is the sibling's new edge key.
SeparatorFollows(k) ==
  LET i == ChildIndex(Found(k)[1])
      before == PageImage(Cur, 0)
      after == PageImage(FirstRound(k).m, 0)
  IN /\ FirstRound(k).m.st = "ok"
     /\ after.num = before.num
     /\ internal_node_key(after, PairKeyIndex(i)) = SiblingEdgeKey(i)
     /\ \A j \in 0..(before.num - 1) :
          j # PairKeyIndex(i) => internal_node_key(after, j) = internal_node_key(before, j)

\* C21: at every prompt, for every key whose first deletion makes a leaf
\* under the root take a cell from its sibling, the root's key between the
\* two is afterwards the sibling's new first key (right sibling) or new last
\* key (left sibling), and the other keys of the root are the keys it had.
C21_SeparatorAfterRedistribute ==
  pc = "prompt" => \A k \in Keys : RedistributesOnDelete(k) => SeparatorFollows(k)

\* The tree of the state is in order: every internal node under the root
\* has a key, separates the keys under its children and is the parent its
\* children name; no page is reached twice, and the leaves under the root
\* are the chain from the leftmost leaf.
WellFormed ==
  /\ ~IsLeaf(Cur, 0)
  /\ TreeNodes = Distinct(TreeNodes)
  /\ ChainFromLeftmost = TreeLeaves
  /\ \A i \in DOMAIN TreeNodes :
       LET n == TreeNodes[i] IN
       ~IsLeaf(Cur, n) =>
         /\ PageImage(Cur, n).num >= 1
         /\ SeparatorsOk(n)
         /\ \A j \in DOMAIN ChildrenOf(Cur, n) :
              PageImage(Cur, ChildrenOf(Cur, n)[j]).parent = n

\* The parent of node n, the children of that parent, the place (from 1) of
\* n among them and the child next to n: the one on its right, or the one on
\* its left when n is the last.
ParentOf(n) == PageImage(Cur, n).parent
Siblings(n) == ChildrenOf(Cur, ParentOf(n))
Place(n) == CHOOSE i \in DOMAIN Siblings(n) : Siblings(n)[i] = n
IsRightmost(n) == Place(n) = Len(Siblings(n))
Neighbour(n) == Siblings(n)[IF IsRightmost(n) THEN Place(n) - 1 ELSE Place(n) + 1]

\* In a tree in order, deleting the row table_find(k) names leaves its leaf
\* below the minimum.
UnderflowsOnDelete(k) ==
  LET n == Found(k)[1]
      p == PageImage(Cur, n)
  IN /\ WellFormed
     /\ \E i \in DOMAIN TreeLeaves : TreeLeaves[i] = n
     /\ Found(k)[2] < p.num
     /\ leaf_node_key(p, Found(k)[2]) = k
     /\ p.num - 1 < LEAF_NODE_MAX_CELLS \div 2

\* The table when merge_or_redistribute looks for the sibling of that leaf,
\* and the sibling it picks.
AtUnderflow(k) ==
  get_page(RemoveCell(table_find(Cur, k).m, Found(k)[1], Found(k)[2]),
           ParentOf(Found(k)[1]))
LeafPick(k) ==
  PickSibling(AtUnderflow(k), Found(k)[1], k, NODE_LEAF, ParentOf(Found(k)[1]))

\* The cell a leaf that borrows from sibling sib gets: the first cell of a
\* right sibling, put after its own cells, or the last cell of a left
\* sibling, put before them.
BorrowedAsSibling(k) ==
  LET n == Found(k)[1]
      sib == PageImage(Cur, Neighbour(n))
      after == PageImage(FirstRound(k).m, n)
      own == PageImage(Cur, n).num - 1
  IN IF IsRightmost(n)
       THEN leaf_node_cell(after, 0) = leaf_node_cell(sib, sib.num - 1)
       ELSE leaf_node_cell(after, own) = leaf_node_cell(sib, 0)

\* C22: at every prompt of a tree in order, for every key whose first
\* deletion leaves a leaf below the minimum, the sibling merge_or_redistribute
\* picks is the child next to the leaf in its parent, the right one, or the
\* left one when the leaf is the parent's last child, the side it hands on is
\* that side, and a leaf that borrows takes the cell on that side of the
\* sibling.
C22_SiblingIsAdjacent ==
  pc = "prompt" =>
    \A k \in Keys :
      UnderflowsOnDelete(k) =>
        /\ LeafPick(k).sib_node_id = Neighbour(Found(k)[1])
        /\ LeafPick(k).rightmost = IsRightmost(Found(k)[1])
        /\ PageImage(Cur, Neighbour(Found(k)[1])).num >= 1 + LEAF_NODE_MIN_CELLS
             => BorrowedAsSibling(k)

\* The keys of internal node n of table m, key 0 first.
KeysOf(m, n) ==
  [i \in 1..Max(PageImage(m, n).num, 0) |-> internal_node_key(PageImage(m, n), i - 1)]

\* The place in the parent of n of the key between n and the child next to
\* it, and that key.
PairKeyPlace(n) == IF IsRightmost(n) THEN Place(n) - 1 ELSE Place(n)
PairKey(n) == KeysOf(Cur, ParentOf(n))[PairKeyPlace(n)]

\* The first round of the deletion of k merges two leaves below an internal
\* node that is a child of the root and has no other leaf, and the child of
\* the root next to that node, a node over leaves too, has no key to spare:
\* the two internal nodes merge.
InternalMergesOnDelete(k) ==
  LET n == Found(k)[1]
      a == ParentOf(n)
  IN /\ UnderflowsOnDelete(k)
     /\ a # 0 /\ ParentOf(a) = 0
     /\ PageImage(Cur, Neighbour(n)).num < 1 + LEAF_NODE_MIN_CELLS
     /\ PageImage(Cur, a).num - 1 < INTERNAL_NODE_MIN_CELLS
     /\ PageImage(Cur, Neighbour(a)).num < 1 + INTERNAL_NODE_MIN_CELLS
     /\ \A i \in DOMAIN ChildrenOf(Cur, Neighbour(a)) :
          IsLeaf(Cur, ChildrenOf(Cur, Neighbour(a))[i])

\* The children and the keys the merged node has to hold: those of the left
\* node, then the key of the pair, then those of the right node, where the
\* node above the merged leaves is left with the left leaf of the two as its
\* only child and no key.
MergedChildren(k) ==
  LET n == Found(k)[1]
      a == ParentOf(n)
      kept == IF IsRightmost(n) THEN Neighbour(n) ELSE n
  IN IF IsRightmost(a) THEN Append(ChildrenOf(Cur, Neighbour(a)), kept)
     ELSE <<kept>> \o ChildrenOf(Cur, Neighbour(a))
MergedKeys(k) ==
  LET a == ParentOf(Found(k)[1])
  IN IF IsRightmost(a) THEN Append(KeysOf(Cur, Neighbour(a)), PairKey(a))
     ELSE <<PairKey(a)>> \o KeysOf(Cur, Neighbour(a))

\* Page merged of the table after holds the merged node, with its children
\* naming it as their parent.
HoldsMerged(after, merged, k) ==
  /\ ~IsLeaf(after, merged)
  /\ KeysOf(after, merged) = MergedKeys(k)
  /\ ChildrenOf(after, merged) = MergedChildren(k)
  /\ \A i \in DOMAIN MergedChildren(k) :
       PageImage(after, MergedChildren(k)[i]).parent = merged

\* The root has lost the key of the pair and one of the two children, and
\* holds page merged where the pair was.
RootKeepsMerged(after, merged, k) ==
  LET a == ParentOf(Found(k)[1])
      first == IF IsRightmost(a) THEN Place(a) - 1 ELSE Place(a)
  IN /\ KeysOf(after, 0) = Remove(KeysOf(Cur, 0), PairKeyPlace(a))
     /\ ChildrenOf(after, 0)
          = SubSeq(ChildrenOf(Cur, 0), 1, first - 1) \o <<merged>>
              \o SubSeq(ChildrenOf(Cur, 0), first + 2, Len(ChildrenOf(Cur, 0)))

\* C23: at every prompt of a tree in order, for every key whose first
\* deletion makes two internal children of a root with more than one key
\* merge, one of the two pages then holds the keys of the left node, the
\* key the root had between them and the keys of the right node, with the
\* children of the two in that order, every child names that page as its
\* parent, and the root has lost that one key and holds that page where the
\* pair was.
C23_InternalMerge ==
  pc = "prompt" =>
    \A k \in Keys :
      (InternalMergesOnDelete(k) /\ PageImage(Cur, 0).num > 1) =>
        /\ FirstRound(k).m.st = "ok"
        /\ \E merged \in {ParentOf(Found(k)[1]), Neighbour(ParentOf(Found(k)[1]))} :
             /\ HoldsMerged(FirstRound(k).m, merged, k)
             /\ RootKeepsMerged(FirstRound(k).m, merged, k)

\* The number of levels of the tree of table m, counted down its first
\* children.
RECURSIVE LevelsUnder(_, _, _)
LevelsUnder(m, n, depth) ==
  IF IsLeaf(m, n) \/ depth = 0 THEN 1
  ELSE 1 + LevelsUnder(m, ChildrenOf(m, n)[1], depth - 1)
Levels(m) == LevelsUnder(m, 0, TreeDepth)

\* The row at the position table_find gives for k.
RowFound(k) == RowsOfLeaf(Cur, Found(k)[1])[Found(k)[2] + 1]

\* The first round of the deletion of k takes the last key of the root: the
\* root has one key and its two children, leaves or internal nodes, merge.
RootCollapsesOnDelete(k) ==
  /\ PageImage(Cur, 0).num = 1
  /\ MergesOnDelete(k) \/ InternalMergesOnDelete(k)

\* Page 0 holds the merged child: the rows of the two leaves but the deleted
\* one, or the keys and children of the merged internal node.
RootHoldsMerged(k) ==
  IF IsLeaf(Cur, Found(k)[1]) /\ ParentOf(Found(k)[1]) = 0
    THEN /\ IsLeaf(FirstRound(k).m, 0)
         /\ SameMultiset(Append(RowsOfLeaf(FirstRound(k).m, 0), RowFound(k)),
                         RowsOf(Cur))
    ELSE /\ ~IsLeaf(FirstRound(k).m, 0)
         /\ KeysOf(FirstRound(k).m, 0) = MergedKeys(k)
         /\ ChildrenOf(FirstRound(k).m, 0) = MergedChildren(k)
         /\ \A i \in DOMAIN ChildrenOf(FirstRound(k).m, 0) :
              PageImage(FirstRound(k).m, ChildrenOf(FirstRound(k).m, 0)[i]).parent = 0

\* C24: at every prompt of a tree in order, for every key whose first
\* deletion makes the two children of a root with one key merge, page 0 then
\* holds the merged child and is marked root, the tree has one level less,
\* the children of page 0 name page 0 as their parent, and the rows under
\* page 0 are the rows it had under it but the deleted one.
C24_RootCollapse ==
  pc = "prompt" =>
    \A k \in Keys :
      RootCollapsesOnDelete(k) =>
        /\ FirstRound(k).m.st = "ok"
        /\ PageImage(FirstRound(k).m, 0).root = 1
        /\ RootHoldsMerged(k)
        /\ Levels(FirstRound(k).m) = Levels(Cur) - 1
        /\ SameMultiset(Append(RowsOf(FirstRound(k).m), RowFound(k)), RowsOf(Cur))

\* The same for a root over leaves.
C24_RootOverLeavesCollapse ==
  pc = "prompt" =>
    \A k \in Keys :
      (RootCollapsesOnDelete(k) /\ MergesOnDelete(k)) =>
        /\ FirstRound(k).m.st = "ok"
        /\ PageImage(FirstRound(k).m, 0).root = 1
        /\ RootHoldsMerged(k)
        /\ Levels(FirstRound(k).m) = Levels(Cur) - 1
        /\ SameMultiset(Append(RowsOf(FirstRound(k).m), RowFound(k)), RowsOf(Cur))

\* seq with x put in before its i-th element.
InsertAt(seq, i, x) == SubSeq(seq, 1, i - 1) \o <<x>> \o SubSeq(seq, i, Len(seq))

\* The step is a completed insert into a tree in order (or a root leaf)
\* whose leaf for the key is full.
SplitInsertStep ==
  /\ pc = "prompt" /\ pc' = "done" /\ cmd'.op = "insert"
  /\ IsLeaf(Cur, 0) \/ WellFormed
  /\ PageImage(Cur, Found(MkKey(cmd'.key))[1]).num >= LEAF_NODE_MAX_CELLS

\* In table m, the table after the insert of key k, the page of the leaf
\* that was split (the copy create_new_root makes when it was the root) and
\* the page of the new leaf.
LeftAfter(m, k) == IF Found(k)[1] = 0 THEN ChildrenOf(m, 0)[1] ELSE Found(k)[1]
RightAfter(m, k) == PageImage(m, LeftAfter(m, k)).next

\* The split for row (a, k) left left_count cells in the old leaf and the
\* other cells in the new one, the cells being the old cells with the new one
\* at the position table_find gave; a key above every key of the leaf is in
\* the last of the cells of the new leaf.
SplitAsCounted(m, k, a, left_count) ==
  /\ Len(RowsOfLeaf(m, LeftAfter(m, k))) = left_count
  /\ Len(RowsOfLeaf(m, RightAfter(m, k))) = (LEAF_NODE_MAX_CELLS + 1) - left_count
  /\ RowsOfLeaf(m, LeftAfter(m, k)) \o RowsOfLeaf(m, RightAfter(m, k))
       = InsertAt(RowsOfLeaf(Cur, Found(k)[1]), Found(k)[2] + 1, <<a, k[1]>>)
  /\ (\A i \in DOMAIN RowsOfLeaf(Cur, Found(k)[1]) :
        RowsOfLeaf(Cur, Found(k)[1])[i][2] < k[1])
       => RowsOfLeaf(m, RightAfter(m, k))[(LEAF_NODE_MAX_CELLS + 1) - left_count]
            = <<a, k[1]>>

\* C25: a completed insert into a full leaf leaves ceil((MAX_CELLS + 1) / 2)
\* cells in the old leaf and the other cells in the new leaf, the cells
\* being the old ones with the new one at its sorted position; a new largest
\* key is in cell RIGHT_SPLIT_COUNT - 1 of the new leaf.
C25_SplitCounts ==
  [][SplitInsertStep =>
       SplitAsCounted(Post, MkKey(cmd'.key), nins',
                      (LEAF_NODE_MAX_CELLS + 2) \div 2)]_vars

\* C25 with the counts of the code: floor((MAX_CELLS + 1) / 2) cells stay
\* in the old leaf and MAX_CELLS + 1 less that number go to the new leaf.
C25_SplitCountsFloor ==
  [][SplitInsertStep =>
       SplitAsCounted(Post, MkKey(cmd'.key), nins',
                      (LEAF_NODE_MAX_CELLS + 1) \div 2)]_vars

\* An insert of a new largest key has split a leaf below the root: the new
\* leaf is the last leaf and ends with the row just inserted.
C25_SplitByLargestKey ==
  /\ Completed("insert")
  /\ WellFormed
  /\ Len(TreeLeaves) > 2
  /\ PageImage(Cur, TreeLeaves[Len(TreeLeaves)]).num = LEAF_NODE_RIGHT_SPLIT_COUNT
  /\ RowsOfLeaf(Cur, TreeLeaves[Len(TreeLeaves)])[LEAF_NODE_RIGHT_SPLIT_COUNT]
       = <<nins, cmd.key>>
  /\ \A i \in 1..(Len(TreeRows) - 1) : TreeRows[i][2] < cmd.key

\* The step of SplitInsertStep inserts the key the full leaf ends with.
SplitByMaxKeyStep ==
  /\ SplitInsertStep
  /\ LET n == Found(MkKey(cmd'.key))[1]
     IN RowsOfLeaf(Cur, n)[Len(RowsOfLeaf(Cur, n))][2] = cmd'.key

\* The last row of the left leaf of table m after the insert of key k.
LeftMax(m, k) ==
  RowsOfLeaf(m, LeftAfter(m, k))[Len(RowsOfLeaf(m, LeftAfter(m, k)))]

\* C26: a completed insert of the key a full leaf ends with splits the leaf,
\* and the old (left) leaf then ends with the inserted key.
C26_LeftMaxIsInsertedKey ==
  [][SplitByMaxKeyStep => LeftMax(Post, MkKey(cmd'.key))[2] = cmd'.key]_vars

\* C26 as the code has it: the left leaf ends with the cell at index
\* floor((MAX_CELLS + 1) / 2) - 1 of the old cells with the new cell before
\* the first cell of its key, and so ends with the inserted key exactly when
\* the full leaf held that key at that index.
C26_LeftMaxIsMiddleCell ==
  [][SplitByMaxKeyStep =>
       LET k == MkKey(cmd'.key)
           old == RowsOfLeaf(Cur, Found(k)[1])
           middle == (LEAF_NODE_MAX_CELLS + 1) \div 2
       IN /\ LeftMax(Post, k) = InsertAt(old, Found(k)[2] + 1, <<nins', k[1]>>)[middle]
          /\ \A i \in 1..Found(k)[2] : old[i][2] < k[1]
          /\ (LeftMax(Post, k)[2] = k[1]) <=> (old[middle][2] = k[1])]_vars

\* An insert of the largest key of a full root leaf has split it, and the
\* left leaf ends with a smaller key.
C26_SplitBelowInsertedKey ==
  /\ Completed("insert")
  /\ nins = LEAF_NODE_MAX_CELLS + 1
  /\ Len(TreeLeaves) = 2
  /\ RowsOfLeaf(Cur, TreeLeaves[1])[LEAF_NODE_LEFT_SPLIT_COUNT][2] < cmd.key
  /\ RowsOfLeaf(Cur, TreeLeaves[2])[1] = <<nins, cmd.key>>
  /\ RowsOfLeaf(Cur, TreeLeaves[2])[2][2] = cmd.key

\* The step is a completed insert into a tree in order whose leaf for the
\* key is full and is the child of a full internal node: the leaf splits and
\* its parent overflows.
InternalSplitStep ==
  /\ SplitInsertStep
  /\ WellFormed
  /\ PageImage(Cur, ParentOf(Found(MkKey(cmd'.key))[1])).num >= INTERNAL_NODE_MAX_CELLS

\* In table m, the table after an insert that made internal node node
\* overflow when child extra was put under it: the page of the left half (the
\* copy or the new left part insert_into_parent makes when node was the
\* root), and the new internal nodes beside it that hold children of node.
OldHalf(m, node) == IF node = 0 THEN ChildrenOf(m, 0)[1] ELSE node
NewHalves(m, node, extra) ==
  {r \in Range(NodesOf(m)) :
     /\ ~IsLeaf(m, r)
     /\ r \notin Range(NodesOf(Cur))
     /\ r # OldHalf(m, node)
     /\ Range(ChildrenOf(m, r)) \cap (Range(ChildrenOf(Cur, node)) \cup {extra}) # {}}

\* Node half of table m is the parent its children name.
ChildrenName(m, half) ==
  \A i \in DOMAIN ChildrenOf(m, half) :
    PageImage(m, ChildrenOf(m, half)[i]).parent = half

\* Pages old and new of table m are the two halves of node, which held N
\* keys and took child extra: old keeps (N + 1) / 2 of the N + 1 keys, new is
\* an internal node that is no root and has the keys after the middle one, a
\* node above has the middle key in the cell of old, the keys are those of
\* node with one more, the children are those of node with extra, and the
\* children name their half as parent.
SplitInHalves(m, node, extra, old, new) ==
  /\ PageImage(m, old).num = (PageImage(Cur, node).num + 1) \div 2
  /\ PageImage(m, new).num
       = PageImage(Cur, node).num - (PageImage(Cur, node).num + 1) \div 2
  /\ PageImage(m, new).type = NODE_INTERNAL
  /\ PageImage(m, new).root = 0
  /\ \E above \in Range(NodesOf(m)) : \E i \in 1..Len(KeysOf(m, above)) :
       /\ ~IsLeaf(m, above)
       /\ ChildrenOf(m, above)[i] = old
       /\ \A j \in DOMAIN KeysOf(m, old) :
            strcmp(KeysOf(m, old)[j], KeysOf(m, above)[i]) <= 0
       /\ \A j \in DOMAIN KeysOf(m, new) :
            strcmp(KeysOf(m, above)[i], KeysOf(m, new)[j]) <= 0
       /\ \E j \in 1..(PageImage(Cur, node).num + 1) :
            SameMultiset(KeysOf(m, old) \o <<KeysOf(m, above)[i]>> \o KeysOf(m, new),
                         Append(KeysOf(Cur, node),
                                (KeysOf(m, old) \o <<KeysOf(m, above)[i]>>
                                   \o KeysOf(m, new))[j]))
  /\ Range(ChildrenOf(m, old)) \cup Range(ChildrenOf(m, new))
       = Range(ChildrenOf(Cur, node)) \cup {extra}
  /\ Len(ChildrenOf(m, old)) + Len(ChildrenOf(m, new))
       = Len(ChildrenOf(Cur, node)) + 1
  /\ ChildrenName(m, old)
  /\ ChildrenName(m, new)

\* Node node, which took child extra, came out of the insert as two halves.
SplitOf(m, node, extra) ==
  /\ Cardinality(NewHalves(m, node, extra)) = 1
  /\ \A new \in NewHalves(m, node, extra) :
       SplitInHalves(m, node, extra, OldHalf(m, node), new)

\* The parent of the leaf for k is no root and is the child of a full node:
\* its split makes the node above overflow as well.
SplitsTwice(k) ==
  /\ ParentOf(Found(k)[1]) # 0
  /\ PageImage(Cur, ParentOf(ParentOf(Found(k)[1]))).num >= INTERNAL_NODE_MAX_CELLS

\* C27: a completed insert that makes an internal node of N keys overflow
\* leaves (N + 1) / 2 keys in the old node, lifts the middle key to the node
\* above and moves the keys after it to one new node, an internal node that
\* is no root, and every child of either half, the new child included, names
\* that half as its parent; so it is for the parent of the leaf that split
\* and for the node above it when the lifted key makes that one overflow.
C27_InternalSplit ==
  [][InternalSplitStep =>
       LET k == MkKey(cmd'.key)
           node == ParentOf(Found(k)[1])
       IN /\ SplitOf(Post, node, RightAfter(Post, k))
          /\ SplitsTwice(k) =>
               \A new \in NewHalves(Post, node, RightAfter(Post, k)) :
                 SplitOf(Post, ParentOf(node), new)]_vars

\* The step is a completed insert into a full root leaf: the leaf splits and
\* create_new_root runs.
RootLeafSplitStep ==
  /\ pc = "prompt" /\ pc' = "done" /\ cmd'.op = "insert"
  /\ IsLeaf(Cur, 0)
  /\ PageImage(Cur, 0).num >= LEAF_NODE_MAX_CELLS

\* In table m, with num_pages pages before create_new_root allocated its
\* page, page 0 is an internal root of one key over a first child that is a
\* new page and a rightmost child that is page right; the first child holds
\* what the root leaf held, the rows given as left, with next_leaf right and
\* is_root clear; the key is the largest key of the first child; both
\* children name page 0 as parent.
NewRootOver(m, before, right, left) ==
  LET child == ChildrenOf(m, 0)[1] IN
  /\ PageImage(m, 0).type = NODE_INTERNAL
  /\ PageImage(m, 0).root = 1
  /\ PageImage(m, 0).num = 1
  /\ PageImage(m, 0).next = right
  /\ child >= before
  /\ child < m.num_pages
  /\ child # right
  /\ IsLeaf(m, child)
  /\ PageImage(m, child).root = 0
  /\ PageImage(m, child).next = right
  /\ RowsOfLeaf(m, child) = left
  /\ KeysOf(m, 0) = <<MkKey(left[Len(left)][2])>>
  /\ PageImage(m, child).parent = 0
  /\ PageImage(m, right).parent = 0

\* C28: a completed insert into a full root leaf leaves page 0 an internal
\* root with one key, the largest key of its first child; the first child is
\* a newly allocated page with the left cells of the split, is_root clear;
\* the rightmost child is the new leaf of the split; both children have
\* parent field 0.
C28_NewRoot ==
  [][RootLeafSplitStep =>
       NewRootOver(Post, num_pages + 1, num_pages,
                   SubSeq(InsertAt(RowsOfLeaf(Cur, 0), Found(MkKey(cmd'.key))[2] + 1,
                                   <<nins', cmd'.key>>),
                          1, LEAF_NODE_LEFT_SPLIT_COUNT))]_vars

\* The insert that filled the root leaf past its cells has given the tree a
\* root over two leaves.
C28_RootOverTwoLeaves ==
  /\ Completed("insert")
  /\ nins = LEAF_NODE_MAX_CELLS + 1
  /\ ~IsLeaf(Cur, 0)
  /\ Len(TreeLeaves) = 2
  /\ num_pages = 3

\* The first round of the deletion of k merges the two leaves of an internal
\* node below the root, and the child next to that node in their parent has
\* a key to spare: the node borrows from it.
InternalRedistributesOnDelete(k) ==
  LET n == Found(k)[1]
      a == ParentOf(n)
  IN /\ UnderflowsOnDelete(k)
     /\ a # 0
     /\ PageImage(Cur, Neighbour(n)).num < 1 + LEAF_NODE_MIN_CELLS
     /\ PageImage(Cur, a).num - 1 < INTERNAL_NODE_MIN_CELLS
     /\ PageImage(Cur, Neighbour(a)).num >= 1 + INTERNAL_NODE_MIN_CELLS

\* seq without its first and without its last element.
Rest(seq) == SubSeq(seq, 2, Len(seq))
Front(seq) == SubSeq(seq, 1, Len(seq) - 1)

\* In table after, the node over the leaves merged for k has borrowed from
\* its left sibling: it has the key of the pair and the former rightmost
\* child of the sibling before the leaf it is left with, the sibling has lost
\* its last key and ends with the child of that key, and the parent has the
\* new last key of the sibling for the pair.
BorrowedFromLeft(after, k) ==
  LET n == Found(k)[1]
      a == ParentOf(n)
      sib == Neighbour(a)
      kept == IF IsRightmost(n) THEN Neighbour(n) ELSE n
  IN /\ KeysOf(after, a) = <<PairKey(a)>>
     /\ ChildrenOf(after, a)
          = <<ChildrenOf(Cur, sib)[Len(ChildrenOf(Cur, sib))], kept>>
     /\ KeysOf(after, sib) = Front(KeysOf(Cur, sib))
     /\ ChildrenOf(after, sib) = Front(ChildrenOf(Cur, sib))
     /\ KeysOf(after, ParentOf(a))[PairKeyPlace(a)]
          = KeysOf(after, sib)[Len(KeysOf(after, sib))]

\* The same from the right sibling: the node has the key of the pair after
\* its keys and the former first child of the sibling after the leaf it is
\* left with, the sibling has lost its first key and child, and the parent
\* has the new first key of the sibling for the pair.
BorrowedFromRight(after, k) ==
  LET n == Found(k)[1]
      a == ParentOf(n)
      sib == Neighbour(a)
      kept == IF IsRightmost(n) THEN Neighbour(n) ELSE n
  IN /\ KeysOf(after, a) = <<PairKey(a)>>
     /\ ChildrenOf(after, a) = <<kept, ChildrenOf(Cur, sib)[1]>>
     /\ KeysOf(after, sib) = Rest(KeysOf(Cur, sib))
     /\ ChildrenOf(after, sib) = Rest(ChildrenOf(Cur, sib))
     /\ KeysOf(after, ParentOf(a))[PairKeyPlace(a)] = KeysOf(after, sib)[1]

\* C29: at every prompt of a tree in order, for every key whose first
\* deletion makes an internal node borrow from the child next to it, the
\* node gets the key its parent had for the pair and the child of the
\* sibling that was next to it, the sibling loses the key and the child at
\* that end, and the parent has for the pair the key the sibling now has at
\* that end: from the left sibling when the node is the last child, from the
\* right sibling otherwise.
C29_InternalRedistribute ==
  pc = "prompt" =>
    \A k \in Keys :
      InternalRedistributesOnDelete(k) =>
        /\ FirstRound(k).m.st = "ok"
        /\ IF IsRightmost(ParentOf(Found(k)[1]))
             THEN BorrowedFromLeft(FirstRound(k).m, k)
             ELSE BorrowedFromRight(FirstRound(k).m, k)

\* The row table_find names for k is a row with key k in a leaf below the
\* root of a tree in order.
DeletesBelowRoot(k) ==
  /\ WellFormed
  /\ \E i \in DOMAIN TreeLeaves : TreeLeaves[i] = Found(k)[1]
  /\ Found(k)[2] < PageImage(Cur, Found(k)[1]).num
  /\ leaf_node_key(PageImage(Cur, Found(k)[1]), Found(k)[2]) = k

\* The pages of table after are the pages of the table before, but for the
\* pages in changed.
SameButFor(after, changed) ==
  /\ after.num_pages = num_pages
  /\ \A q \in 0..(num_pages - 1) :
       q \notin changed => PageImage(after, q) = PageImage(Cur, q)

\* The first round of the deletion of k has taken the one row from its leaf
\* and nothing else has changed.
OnlyRemoved(after, k) ==
  /\ RowsOfLeaf(after, Found(k)[1])
       = Remove(RowsOfLeaf(Cur, Found(k)[1]), Found(k)[2] + 1)
  /\ SameButFor(after, {Found(k)[1]})

\* The leaf has taken one row from the sibling the code picked: the leaf
\* holds as many rows as before the deletion, the sibling one less, and no
\* page but the two and their parent has changed.
OneBorrowed(after, k) ==
  LET n == Found(k)[1]
      sib == LeafPick(k).sib_node_id
  IN /\ PageImage(after, n).num = PageImage(Cur, n).num
     /\ PageImage(after, sib).num = PageImage(Cur, sib).num - 1
     /\ SameMultiset(RowsOfLeaf(after, n) \o RowsOfLeaf(after, sib),
                     Remove(RowsOfLeaf(Cur, n), Found(k)[2] + 1)
                       \o RowsOfLeaf(Cur, sib))
     /\ SameButFor(after, {n, sib, ParentOf(n)})

\* C30: at every prompt of a tree in order, for every key with a row in a
\* leaf below the root, the first round of its deletion takes that row only
\* when the leaf keeps the minimum; when the leaf falls below it and the
\* sibling picked has more than the minimum, one row moves from the sibling
\* to the leaf and no page but the two leaves and their parent changes; and
\* the parent loses a key only when the sibling picked has the minimum or
\* fewer.
C30_MergeOrRedistribute ==
  pc = "prompt" =>
    \A k \in Keys :
      DeletesBelowRoot(k) =>
        /\ FirstRound(k).m.st = "ok"
        /\ PageImage(Cur, Found(k)[1]).num - 1 >= LEAF_NODE_MAX_CELLS \div 2
             => OnlyRemoved(FirstRound(k).m, k)
        /\ (/\ PageImage(Cur, Found(k)[1]).num - 1 < LEAF_NODE_MAX_CELLS \div 2
            /\ PageImage(Cur, LeafPick(k).sib_node_id).num > LEAF_NODE_MIN_CELLS)
             => OneBorrowed(FirstRound(k).m, k)
        /\ PageImage(FirstRound(k).m, ParentOf(Found(k)[1])).num
             < PageImage(Cur, ParentOf(Found(k)[1])).num
             => PageImage(Cur, LeafPick(k).sib_node_id).num <= LEAF_NODE_MIN_CELLS

\* Cell i of a page ends inside the page.
CellInsidePage(i) ==
  LEAF_NODE_HEADER_SIZE + (i + 1) * LEAF_NODE_CELL_SIZE <= PAGE_SIZE

\* C31: in every state no command has written a cell outside a page, every
\* resident leaf holds at most LEAF_NODE_MAX_CELLS cells and every resident
\* internal node at most INTERNAL_NODE_MAX_CELLS keys, and the cell one past
\* the count, where an insertion puts the extra cell before the node is
\* split, ends inside the page.
C31_CellsInsidePage ==
  /\ pc # "crashed"
  /\ \A n \in DOMAIN pages :
       /\ pages[n].type = NODE_LEAF => pages[n].num <= LEAF_NODE_MAX_CELLS
       /\ pages[n].type = NODE_INTERNAL
            => pages[n].num <= INTERNAL_NODE_MAX_CELLS
       /\ CellInsidePage(pages[n].num)

\* An insert has just run on a tree of three levels, whose root was split
\* with one key more than an internal node holds, and the tree has a full
\* leaf and a full internal node.
C31_FullNodesAfterSplit ==
  /\ Completed("insert")
  /\ Levels(Cur) = 3
  /\ \E n \in DOMAIN pages :
       pages[n].type = NODE_LEAF /\ pages[n].num = LEAF_NODE_MAX_CELLS
  /\ \E n \in DOMAIN pages :
       pages[n].type = NODE_INTERNAL /\ pages[n].num = INTERNAL_NODE_MAX_CELLS

\* table_find puts the cursor for k at the count of its leaf: k is larger
\* than every key of the leaf, or the leaf is empty.
FoundPastCount(k) ==
  /\ table_find(Cur, k).m.st = "ok"
  /\ Found(k)[2] >= PageImage(Cur, Found(k)[1]).num

\* C32: at every prompt, a `select K` whose cursor starts at the count of
\* its leaf prints no row, whatever the unset flag of its cursor holds, and
\* a `select` whose cursor is not at the end of the table starts at a cell
\* below the count of its leaf.
C32_SelectReadsLiveCells ==
  pc = "prompt" =>
    /\ \A k \in Keys :
         FoundPastCount(k) =>
           \A f \in FlagValues : b_tree_search(Cur, k, f).out = <<>>
    /\ (table_start(Cur).m.st = "ok" /\ ~table_start(Cur).end_of_table)
         => table_start(Cur).cell_num
              < PageImage(Cur, table_start(Cur).page_num).num

\* The bytes of a key buffer behind the first NUL are NUL.
NulPadded(k) ==
  \A i \in 1..LEAF_NODE_KEY_SIZE :
    i > StrLenFrom(k, 1) => ByteAt(k, i) = 0

\* The keys in the cells of node n of the tree, below its count.
StoredKeys(n) ==
  {IF IsLeaf(Cur, n) THEN leaf_node_key(PageImage(Cur, n), i)
   ELSE internal_node_key(PageImage(Cur, n), i) :
     i \in 0..(PageImage(Cur, n).num - 1)}

\* C33: in every state, every key in a leaf cell or an internal cell of the
\* tree is its string followed by NUL bytes only up to the twelfth byte.
C33_StoredKeysNulPadded ==
  \A i \in DOMAIN TreeNodes : \A k \in StoredKeys(TreeNodes[i]) : NulPadded(k)

\* The page numbers get_page is tried with: every slot of the pages array
\* and the two numbers behind it.
PageNumbers == 0..(TABLE_MAX_PAGES + 1)

\* C34: on the table of every state, get_page(n) exits for every n above
\* TABLE_MAX_PAGES, and a call that does not exit has a page number that is
\* an index of the pages array, 0 <= n < TABLE_MAX_PAGES.
C34_GetPageInsideArray ==
  \A n \in PageNumbers :
    /\ n > TABLE_MAX_PAGES => get_page(Cur, n).st = "fatal"
    /\ get_page(Cur, n).st # "fatal" => n < TABLE_MAX_PAGES

\* Page n is named by a page of table m: as a child of an internal node or
\* as the next leaf of a leaf.
Referenced(m, n) ==
  \E q \in 0..(m.num_pages - 1) :
    IF IsLeaf(m, q) THEN PageImage(m, q).next = n
    ELSE \E i \in DOMAIN ChildrenOf(m, q) : ChildrenOf(m, q)[i] = n

\* The step is a completed command of the running process.
CommandStep == pc = "prompt" /\ pc' = "done"

\* The step is a completed insert of a key whose leaf is full.
FullLeafInsertStep ==
  /\ CommandStep
  /\ cmd'.op = "insert"
  /\ PageImage(Cur, Found(MkKey(cmd'.key))[1]).num >= LEAF_NODE_MAX_CELLS

\* C35: over every completed command num_pages does not decrease, the pages
\* that are new after it are the pages numbered from the old num_pages up to
\* the new one, one after the other, and none of them was named by a page
\* of the table before; an insert into a full leaf makes at least one new
\* page, and the new leaf is one of the new pages.
C35_PagesAppended ==
  [][CommandStep =>
       /\ num_pages' >= num_pages
       /\ DOMAIN pages' = 0..(num_pages' - 1)
       /\ \A n \in num_pages..(num_pages' - 1) : ~Referenced(Cur, n)
       /\ FullLeafInsertStep =>
            /\ num_pages' > num_pages
            /\ RightAfter(Post, MkKey(cmd'.key)) >= num_pages]_vars

\* An insert has run on a tree of three levels, whose making took a leaf
\* and two internal nodes in one command, after a delete, and a page of the
\* table is outside the tree.
C35_GrownAfterMerge ==
  /\ Completed("insert")
  /\ ndel > 0
  /\ Levels(Cur) = 3
  /\ \E n \in 0..(num_pages - 1) : n \notin Range(TreeNodes)

(***************************************************************************)
(* SIGINT inside the flush, src/myjql.c:172-202, 368-382 and 1889-1892.    *)
(* .exit and end of input call exit(), whose handler exit_success runs     *)
(* db_close.  sigint_handler calls exit() as well: when the signal arrives *)
(* while db_close is in its loop, the second exit() finds the handler      *)
(* already taken and ends the process, and the pages from the one the loop *)
(* had reached are never written.                                          *)
(***************************************************************************)
\* db_close left at page stop of its loop: the resident pages below stop
\* are in the file, the others are not.
db_close_stopped(m, stop) ==
  db_close([m EXCEPT !.pages = [i \in {j \in DOMAIN m.pages : j < stop} |-> m.pages[i]]])

\* .exit or end of input at the prompt, and SIGINT when the loop of
\* db_close is at a resident page, stop, that it has not written.
ExitThenSigint(stop) ==
  /\ pc = "prompt"
  /\ stop \in Flushed(Cur)
  /\ pc' = "exited"
  /\ file' = db_close_stopped(Cur, stop)
  /\ pages' = <<>>
  /\ num_pages' = 0
  /\ UNCHANGED <<out, cmd, live, nins, ndel, nopen, statement, lru>>

\* One run of the program to its end, with the signal.
NextSignal ==
  \/ \E k \in Keys : Insert(k, MaxInserts)
  \/ \E k \in Keys : \E end_of_table \in FlagValues :
        Delete(k, end_of_table, MaxDeletes)
  \/ \E k \in Keys : \E end_of_table \in FlagValues : SelectKey(k, end_of_table)
  \/ SelectAll
  \/ Prompt
  \/ Exit
  \/ \E stop \in 0..(TABLE_MAX_PAGES - 1) : ExitThenSigint(stop)

SpecSignal == Init /\ [][NextSignal]_vars

\* The step leaves the program from the prompt: .exit, end of input or
\* SIGINT, no command running.
LeaveStep == pc = "prompt" /\ pc' = "exited" /\ cmd' = NoCmd

\* C36: every step that leaves the program from the prompt (.exit, end of
\* input, SIGINT) leaves the file with every resident page n below
\* num_pages written in full at page offset n, and every step that stays in
\* the program leaves the file as it was.
C36_ExitWritesEveryPage ==
  [][/\ LeaveStep =>
          /\ file' = db_close(Cur)
          /\ \A n \in Flushed(Cur) : Len(file') > n /\ file'[n + 1] = pages[n]
     /\ pc' \in {"prompt", "done"} => file' = file]_vars

(***************************************************************************)
(* The program started on a file of any length, src/myjql.c:97-123,        *)
(* 368-382 and 1894-1903.  main registers exit_success with atexit before  *)
(* open_file assigns the global table, which is NULL until db_open has     *)
(* returned.                                                               *)
(***************************************************************************)
\* The bytes behind the last whole page of the file the program is given.
ExtraBytes == {0, 1, PAGE_SIZE - 1}

\* pager_open on a file of file_length bytes whose whole pages are fl.
pager_open_length(fl, file_length) ==
  IF file_length % PAGE_SIZE # 0
    THEN Fail(Mem(<<>>, file_length \div PAGE_SIZE, fl), "fatal")
    ELSE pager_open(fl)

\* exit_success -> exit_nicely -> db_close(table): with table still NULL,
\* `table->pager` reads through the null pointer and the process is killed;
\* nothing is written.
exit_nicely(table_assigned, m) ==
  IF table_assigned THEN [m EXCEPT !.file = db_close(m)]
  ELSE [m EXCEPT !.st = "crash"]

\* The program is started again on the file, to which extra bytes have been
\* appended.
OpenLength(extra) ==
  /\ pc = "exited"
  /\ nopen < MaxReopens
  /\ LET opened == pager_open_length(file, Len(file) * PAGE_SIZE + extra)
     IN IF opened.st = "ok"
          THEN /\ pages' = db_open(file).pages
               /\ num_pages' = db_open(file).num_pages
               /\ file' = file
               /\ pc' = "prompt"
          ELSE /\ pages' = <<>>
               /\ num_pages' = 0
               /\ file' = exit_nicely(FALSE, opened).file
               /\ pc' = IF exit_nicely(FALSE, opened).st = "crash" THEN "crashed"
                        ELSE "exited"
  /\ nopen' = nopen + 1
  /\ out' = <<>>
  /\ cmd' = [op |-> "open", key |-> extra, end_of_table |-> FALSE]
  /\ statement' = ZeroStatement
  /\ UNCHANGED lru
  /\ UNCHANGED <<live, nins, ndel>>

NextLength ==
  \/ \E k \in Keys : Insert(k, MaxInsertsReopen)
  \/ \E k \in Keys : \E end_of_table \in FlagValues :
        Delete(k, end_of_table, MaxDeletesReopen)
  \/ \E k \in Keys : \E end_of_table \in FlagValues : SelectKey(k, end_of_table)
  \/ SelectAll
  \/ Prompt
  \/ Exit
  \/ \E extra \in ExtraBytes : OpenLength(extra)

SpecLength == Init /\ [][NextLength]_vars

\* C37: after the program was started on a file whose length is not a
\* multiple of PAGE_SIZE, the process has ended through exit (it was not
\* killed) and the file is the file it was started on.
C37_BadLengthExitsClean ==
  [][(pc = "exited" /\ cmd'.op = "open" /\ cmd'.key # 0) =>
        /\ pc' = "exited"
        /\ file' = file]_vars

\* The number of cells with key k that the leaves of table m count.
RECURSIVE KeyCellsUpTo(_, _, _)
KeyCellsUpTo(m, k, n) ==
  IF n < 0 THEN 0
  ELSE KeyCellsUpTo(m, k, n - 1) +
       (IF IsLeaf(m, n)
          THEN Cardinality({i \in 0..(PageImage(m, n).num - 1) :
                              i < CELL_SLOTS /\ leaf_node_key(PageImage(m, n), i) = k})
          ELSE 0)

KeyCells(m, k) == KeyCellsUpTo(m, k, m.num_pages - 1)

\* C38: at every prompt, for every key K and every value of the unset
\* flag, `delete K` comes to an end: its loop does not run on for ever, and
\* no descent and no climb of merge_or_redistribute recurses without end;
\* a round of the loop that does not end it has removed a counted cell with
\* key K from the leaf the search found, and leaves the leaves of the table
\* with fewer counted cells of key K than before.
C38_DeleteTerminates ==
  pc = "prompt" =>
    \A k \in Keys :
      /\ FirstRound(k).deleted =>
           /\ table_find(Cur, k).cell_num < PageImage(Cur, table_find(Cur, k).page_num).num
           /\ leaf_node_key(PageImage(Cur, table_find(Cur, k).page_num),
                            table_find(Cur, k).cell_num) = k
           /\ KeyCells(FirstRound(k).m, k) < KeyCells(Cur, k)
      /\ \A end_of_table \in FlagValues :
           b_tree_delete(Cur, k, end_of_table).st \notin {"hang", "overflow"}

\* A delete that went round its loop three times and more, with a merge on
\* the way that left a page outside the tree, has ended.
C38_DuplicatesDeleted ==
  /\ Completed("delete")
  /\ ~cmd.end_of_table
  /\ nins - Len(live) >= 3
  /\ \E n \in 0..(num_pages - 1) : n \notin Range(TreeNodes)

(***************************************************************************)
(* Calls on the pager of src/lru.c.  One action per call; the other        *)
(* program is not touched.                                                 *)
(***************************************************************************)
myjql_vars ==
  <<pages, num_pages, file, pc, out, cmd, live, nins, ndel, nopen, statement>>

LruReady == lru.started /\ lru.st = "ok"

\* What the uninitialised frame_id of get_unused_page_num can hold: a frame
\* or a number that is none.
GarbageFrames == 0..LRU_TABLE_MAX_PAGES

\* main of src/lru.c, lines 325-357.
LruMain(valid) ==
  /\ ~lru.started
  /\ lru' = lru_main(valid)
  /\ UNCHANGED myjql_vars

CallLRUCachePut(frame_id) ==
  /\ LruReady
  /\ Len(lru.replacer_.list) < MaxNodes
  /\ lru' = [lru EXCEPT
               !.replacer_ = LRUCachePut(lru.replacer_, frame_id),
               !.last = [op |-> "LRUCachePut", arg |-> frame_id, ok |-> TRUE, ret |-> 0]]
  /\ UNCHANGED myjql_vars

CallUnPin(frame_id) ==
  /\ LruReady
  /\ lru' = [lru EXCEPT
               !.replacer_ = UnPin(lru.replacer_, frame_id),
               !.st = UnPin(lru.replacer_, frame_id).st,
               !.last = [op |-> "UnPin", arg |-> frame_id, ok |-> TRUE, ret |-> 0]]
  /\ UNCHANGED myjql_vars

\* A call on the pager can be made.
PoolReady == LruReady /\ lru.calls < MaxPoolCalls

\* The user of the pager hands a frame that holds a page to the replacer.
CallUnPinFrame(frame_id) ==
  /\ PoolReady
  /\ lru.page_id_table_[frame_id] # -1
  /\ lru' = [lru EXCEPT
               !.replacer_ = UnPin(lru.replacer_, frame_id),
               !.st = UnPin(lru.replacer_, frame_id).st,
               !.last = [op |-> "UnPin", arg |-> frame_id, ok |-> TRUE, ret |-> 0],
               !.calls = @ + 1]
  /\ UNCHANGED myjql_vars

CallPin(frame_id) ==
  /\ LruReady
  /\ lru' = [lru EXCEPT
               !.replacer_ = Pin(lru.replacer_, frame_id),
               !.last = [op |-> "Pin", arg |-> frame_id, ok |-> TRUE, ret |-> 0]]
  /\ UNCHANGED myjql_vars

CallVictim ==
  /\ LruReady
  /\ lru' = [lru EXCEPT
               !.replacer_ = Victim(lru.replacer_).obj,
               !.last = [op |-> "Victim", arg |-> 0,
                         ok |-> Victim(lru.replacer_).ok,
                         ret |-> Victim(lru.replacer_).frame_id]]
  /\ UNCHANGED myjql_vars

CallGetPage(page_num) ==
  /\ PoolReady
  /\ lru' = [lru_get_page(lru, page_num).pager EXCEPT
               !.last = [op |-> "get_page", arg |-> page_num,
                         ok |-> lru_get_page(lru, page_num).ok, ret |-> 0],
               !.calls = @ + 1]
  /\ UNCHANGED myjql_vars

CallGetUnusedPageNum(uninitialised) ==
  /\ PoolReady
  /\ lru' = [lru_get_unused_page_num(lru, uninitialised).pager EXCEPT
               !.last = [op |-> "get_unused_page_num", arg |-> 0, ok |-> TRUE,
                         ret |-> lru_get_unused_page_num(lru, uninitialised).page_id],
               !.calls = @ + 1]
  /\ UNCHANGED myjql_vars

\* The replacer under the calls make_test makes.
NextReplacer ==
  \/ \E valid \in BOOLEAN : LruMain(valid)
  \/ \E frame_id \in Frames : CallLRUCachePut(frame_id)
  \/ \E frame_id \in Frames : CallUnPin(frame_id)
  \/ \E frame_id \in Frames : CallPin(frame_id)
  \/ CallVictim

SpecReplacer == Init /\ [][NextReplacer]_vars

\* The pager under get_unused_page_num and get_page, with frames handed to
\* the replacer by UnPin.
NextPool ==
  \/ \E valid \in BOOLEAN : LruMain(valid)
  \/ \E uninitialised \in GarbageFrames : CallGetUnusedPageNum(uninitialised)
  \/ \E page_num \in PoolPageIds : CallGetPage(page_num)
  \/ \E frame_id \in Frames : CallUnPinFrame(frame_id)

SpecPool == Init /\ [][NextPool]_vars

\* The frames the replacer holds: the frames of the nodes of its list.
Held(obj) == {obj.list[i].frame_id : i \in DOMAIN obj.list}

\* The step is a call of Victim.
VictimStep == lru' # lru /\ lru'.last.op = "Victim"

\* C39: a call of Victim on a replacer that holds no frame returns false
\* and leaves the replacer as it is; on a replacer that holds frames it
\* returns true and the frame of the first node of the list, the frame that
\* entered earliest, and afterwards the replacer does not hold that frame
\* and holds the others in their order.
C39_VictimTakesEarliest ==
  [][VictimStep =>
       IF Held(lru.replacer_) = {}
         THEN /\ ~lru'.last.ok
              /\ lru'.replacer_ = lru.replacer_
         ELSE /\ lru'.last.ok
              /\ lru'.last.ret = Head(lru.replacer_.list).frame_id
              /\ lru'.last.ret \notin Held(lru'.replacer_)
              /\ lru'.replacer_.list = Tail(lru.replacer_.list)]_vars

\* The step is a call of get_unused_page_num that follows one.
SecondUnusedStep ==
  /\ lru' # lru
  /\ lru.st = "ok" /\ lru'.st = "ok"
  /\ lru.last.op = "get_unused_page_num"
  /\ lru'.last.op = "get_unused_page_num"

\* C40: in every state of the running pager page_table_[p] = f exactly
\* when page_id_table_[f] = p, for every page p and frame f, and a call of
\* get_unused_page_num that follows one returns another page number.
C40_TablesInverse ==
  [][/\ (lru'.started /\ lru'.st = "ok") =>
          \A p \in PageTableIds : \A f \in Frames :
             lru'.page_table_[p] = f <=> lru'.page_id_table_[f] = p
     /\ SecondUnusedStep => lru'.last.ret # lru.last.ret]_vars

====
